---- MODULE Spec2Model ----
(***************************************************************************)
(* A model of the MusicMashupTool pipeline: the song classifier (Grouper,  *)
(* step1_classifier.py), the key arithmetic of the pitch/tempo stage       *)
(* (step2_pitch_tempo.py) and the worker that runs the stages in order     *)
(* (pipeline_worker.py).  The Transform Planner (process_pitch_tempo_core)  *)
(* is modelled on classified sheets of its own: the resolution of audio    *)
(* files, the task list, the task loop with what may raise in it, and the  *)
(* hand-over to step 3.                                                    *)
(*                                                                         *)
(* Text is a sequence of one-character strings, so that str.strip,         *)
(* str.lower, float(), int() and f-string formatting are computed and not  *)
(* assumed.  A spreadsheet cell is a record: an empty cell (NaN), an       *)
(* integer-valued number, or text.  Indices are 1-based (Python's          *)
(* anchor_idx + 1).                                                        *)
(***************************************************************************)
EXTENDS Integers, Sequences, FiniteSets, TLC

\* ------------------------------------------------------------------ bounds

\* The largest number of rows of the input table.
MaxSongs == 3

\* The largest number of files of a directory walk.
MaxFiles == 3

\* ------------------------------------------------------------------ text

DigitChars == <<"0", "1", "2", "3", "4", "5", "6", "7", "8", "9">>
LowerChars == <<"a", "b", "c", "d", "e", "f", "g", "h", "i", "j", "k", "l", "m",
                "n", "o", "p", "q", "r", "s", "t", "u", "v", "w", "x", "y", "z">>
UpperChars == <<"A", "B", "C", "D", "E", "F", "G", "H", "I", "J", "K", "L", "M",
                "N", "O", "P", "Q", "R", "S", "T", "U", "V", "W", "X", "Y", "Z">>

IsDigit(c) == \E i \in 1..10 : DigitChars[i] = c
DigitVal(c) == (CHOOSE i \in 1..10 : DigitChars[i] = c) - 1
IsSpace(c) == c = " "

\* str.lower / str.upper on one character of the alphabet
LowerChar(c) ==
    IF \E i \in 1..Len(UpperChars) : UpperChars[i] = c
    THEN LowerChars[CHOOSE i \in 1..Len(UpperChars) : UpperChars[i] = c]
    ELSE c
UpperChar(c) ==
    IF \E i \in 1..Len(LowerChars) : LowerChars[i] = c
    THEN UpperChars[CHOOSE i \in 1..Len(LowerChars) : LowerChars[i] = c]
    ELSE c

Lower(s) == [i \in 1..Len(s) |-> LowerChar(s[i])]
Upper(s) == [i \in 1..Len(s) |-> UpperChar(s[i])]

RECURSIVE LStrip(_)
LStrip(s) ==
    IF s # <<>> /\ IsSpace(Head(s)) THEN LStrip(Tail(s)) ELSE s

RECURSIVE RStrip(_)
RStrip(s) ==
    IF s # <<>> /\ IsSpace(s[Len(s)]) THEN RStrip(SubSeq(s, 1, Len(s) - 1)) ELSE s

\* str.strip
Strip(s) == RStrip(LStrip(s))

AllDigits(s) == \A i \in 1..Len(s) : IsDigit(s[i])

\* the value of a string of decimal digits (0 for the empty string)
RECURSIVE DigitsVal(_)
DigitsVal(s) ==
    IF s = <<>> THEN 0
    ELSE 10 * DigitsVal(SubSeq(s, 1, Len(s) - 1)) + DigitVal(s[Len(s)])

\* str(n) of a natural number
RECURSIVE NatToStr(_)
NatToStr(n) ==
    IF n < 10 THEN <<DigitChars[n + 1]>>
    ELSE NatToStr(n \div 10) \o <<DigitChars[(n % 10) + 1]>>

\* str(n) of an integer, also what an f-string prints for an int
IntToStr(n) == IF n < 0 THEN <<"-">> \o NatToStr(-n) ELSE NatToStr(n)

HasSign(s) == s # <<>> /\ Head(s) \in {"-", "+"}
Unsigned(s) == IF HasSign(s) THEN Tail(s) ELSE s
DotAt(s) == IF \E i \in 1..Len(s) : s[i] = "." THEN CHOOSE i \in 1..Len(s) : s[i] = "." ELSE 0

\* Python's float(s) on the decimal forms [sign] digits [. digits]: whether it
\* parses, the sign, the integer part, and whether the fraction is zero.
\* float() ignores surrounding whitespace.
ParseFloat(s) ==
    LET t == Strip(s)
        neg == t # <<>> /\ Head(t) = "-"
        u == Unsigned(t)
        d == DotAt(u)
        ip == IF d = 0 THEN u ELSE SubSeq(u, 1, d - 1)
        fp == IF d = 0 THEN <<>> ELSE SubSeq(u, d + 1, Len(u))
        ok == /\ AllDigits(ip) /\ AllDigits(fp)
              /\ Len(ip) + Len(fp) > 0
    IN  [ok |-> ok,
         neg |-> neg,
         ip |-> IF ok THEN DigitsVal(ip) ELSE 0,
         intlike |-> ok /\ DigitsVal(fp) = 0]

\* int(float(s)): truncation toward zero
TruncFloat(pf) == IF pf.neg THEN -pf.ip ELSE pf.ip

\* Python's int(s) on text: [sign] digits, surrounding whitespace ignored
ParseInt(s) ==
    LET t == Strip(s)
        u == Unsigned(t)
        ok == u # <<>> /\ AllDigits(u)
    IN  [ok |-> ok,
         v |-> IF ~ok THEN 0
               ELSE IF Head(t) = "-" THEN -DigitsVal(u) ELSE DigitsVal(u)]

\* ------------------------------------------------------------------ cells

NaN == [kind |-> "nan", n |-> 0, s |-> <<>>]
Num(n) == [kind |-> "num", n |-> n, s |-> <<>>]
Str(s) == [kind |-> "str", n |-> 0, s |-> s]

\* pd.isna
IsNa(cell) == cell.kind = "nan"

\* str(value)
PyStr(cell) ==
    CASE cell.kind = "nan" -> <<"n", "a", "n">>
      [] cell.kind = "num" -> IntToStr(cell.n)
      [] OTHER -> cell.s

\* ------------------------------------------------------------ step 1: keys

\* KEY_MAPPING of the classifier, in dictionary order
KEY_MAPPING ==
    << <<<<"C">>, 0>>, <<<<"C", "#">>, 1>>, <<<<"D", "b">>, 1>>,
       <<<<"D">>, 2>>, <<<<"D", "#">>, 3>>, <<<<"E", "b">>, 3>>,
       <<<<"E">>, 4>>,
       <<<<"F">>, 5>>, <<<<"F", "#">>, 6>>, <<<<"G", "b">>, 6>>,
       <<<<"G">>, 7>>, <<<<"G", "#">>, 8>>, <<<<"A", "b">>, 8>>,
       <<<<"A">>, 9>>, <<<<"A", "#">>, 10>>, <<<<"B", "b">>, 10>>,
       <<<<"B">>, 11>> >>

\* Python's num % 12 (the result has the sign of the divisor)
PyMod12(num) == num % 12

\* key_to_number: [ok |-> FALSE] stands for the ValueError it raises
key_to_number(key) ==
    LET key_str == Strip(PyStr(key))
        pf == ParseFloat(key_str)
        exact == {i \in 1..Len(KEY_MAPPING) : KEY_MAPPING[i][1] = key_str}
        nocase == {i \in 1..Len(KEY_MAPPING) :
                      Upper(KEY_MAPPING[i][1]) = Upper(key_str)}
        First(S) == CHOOSE i \in S : \A j \in S : i <= j
    IN  IF IsNa(key) THEN [ok |-> FALSE, v |-> 0]
        ELSE IF pf.ok THEN [ok |-> TRUE, v |-> PyMod12(TruncFloat(pf))]
        ELSE IF exact # {} THEN [ok |-> TRUE, v |-> KEY_MAPPING[First(exact)][2]]
        ELSE IF nocase # {} THEN [ok |-> TRUE, v |-> KEY_MAPPING[First(nocase)][2]]
        ELSE [ok |-> FALSE, v |-> 0]

Abs(x) == IF x < 0 THEN -x ELSE x
Min(a, b) == IF a <= b THEN a ELSE b

\* the key difference without the way round the circle
KeyDiffLinear(candidate_key_num, anchor_key_num) ==
    Abs(candidate_key_num - anchor_key_num)

\* the circular key difference of the candidate scan (lines 296-297)
KeyDiffCircular(candidate_key_num, anchor_key_num) ==
    LET key_diff == Abs(candidate_key_num - anchor_key_num)
    IN  Min(key_diff, 12 - key_diff)

\* ------------------------------------------------------------ step 2: keys

\* KEY_MAPPING of the pitch/tempo stage (lines 69-77)
KEY_MAPPING_2 ==
    << <<<<"C">>, 0>>, <<<<"C", "#">>, 1>>, <<<<"D", "B">>, 1>>,
       <<<<"D">>, 2>>, <<<<"D", "#">>, 3>>, <<<<"E", "B">>, 3>>,
       <<<<"E">>, 4>>, <<<<"F", "B">>, 4>>,
       <<<<"F">>, 5>>, <<<<"E", "#">>, 5>>, <<<<"F", "#">>, 6>>, <<<<"G", "B">>, 6>>,
       <<<<"G">>, 7>>, <<<<"G", "#">>, 8>>, <<<<"A", "B">>, 8>>,
       <<<<"A">>, 9>>, <<<<"A", "#">>, 10>>, <<<<"B", "B">>, 10>>,
       <<<<"B">>, 11>>, <<<<"C", "B">>, 11>>, <<<<"B", "#">>, 0>> >>

\* the alternatives of the regular expression of line 89
MODE_SUFFIXES ==
    {<<"M">>, <<"M", "I", "N">>, <<"M", "A", "J", "O", "R">>, <<"M", "A", "J">>,
     <<"M", "7">>, <<"M", "9">>, <<"M", "1", "1">>}

\* re.sub(r'\s*(M|MIN|MAJOR|MAJ|M7|M9|M11)\s*$', '', key_str): the leftmost
\* position from which the rest of the string is an alternative between
\* optional whitespace, and the string cut there
StripModeSuffix(key_str) ==
    LET starts == {i \in 1..Len(key_str) :
                      Strip(SubSeq(key_str, i, Len(key_str))) \in MODE_SUFFIXES}
    IN  IF starts = {} THEN key_str
        ELSE SubSeq(key_str, 1, (CHOOSE i \in starts : \A j \in starts : i <= j) - 1)

NoneValue == -1

\* parse_key_to_semitone (lines 80-91) on a string; NoneValue for None
parse_key_to_semitone(key) ==
    LET key_str == StripModeSuffix(Upper(Strip(key)))
        hits == {i \in 1..Len(KEY_MAPPING_2) : KEY_MAPPING_2[i][1] = key_str}
    IN  IF key = <<>> \/ hits = {} THEN NoneValue
        ELSE KEY_MAPPING_2[CHOOSE i \in hits : TRUE][2]

\* the wrap without its second branch
NormalizeShiftDownOnly(shift) ==
    IF shift > 6 THEN shift - 12 ELSE shift

\* the wrap of lines 102-107
NormalizeShift(shift) ==
    IF shift > 6 THEN shift - 12
    ELSE IF shift < -6 THEN shift + 12
    ELSE shift

\* calculate_semitone_shift (lines 94-109): <<>> for None, else the two
\* semitones and the shift returned
calculate_semitone_shift(source_key, target_key) ==
    LET source_semitone == parse_key_to_semitone(source_key)
        target_semitone == parse_key_to_semitone(target_key)
    IN  IF source_semitone = NoneValue \/ target_semitone = NoneValue THEN <<>>
        ELSE <<source_semitone, target_semitone,
               NormalizeShift(target_semitone - source_semitone)>>

\* ----------------------------------------------------------- step 2: files

\* The characters of file stems in the order of their code points, which is
\* the order sorted() compares strings by
CharOrder == <<" ", "-">> \o DigitChars \o UpperChars \o <<"_">> \o LowerChars

Ord(c) == CHOOSE i \in 1..Len(CharOrder) : CharOrder[i] = c

\* s < t for two strings (Python's comparison of str)
StrLess(s, t) ==
    \E i \in 1..(Len(t)) :
        /\ \A j \in 1..(i - 1) : j <= Len(s) /\ s[j] = t[j]
        /\ \/ i = Len(s) + 1
           \/ i <= Len(s) /\ Ord(s[i]) < Ord(t[i])

\* str.startswith
StartsWith(s, prefix) ==
    Len(prefix) <= Len(s) /\ SubSeq(s, 1, Len(prefix)) = prefix

\* sub in s
Contains(s, sub) ==
    \E i \in 1..(Len(s) - Len(sub) + 1) : SubSeq(s, i, i + Len(sub) - 1) = sub

\* an audio file of the directory: its stem and its suffix
File(stem, suffix) == [stem |-> stem, suffix |-> suffix]

WAV == <<".", "w", "a", "v">>
MP3 == <<".", "m", "p", "3">>

audio_extensions ==
    {WAV, MP3, <<".", "m", "4", "a">>, <<".", "f", "l", "a", "c">>,
     <<".", "a", "a", "c">>, <<".", "o", "g", "g">>, <<".", "w", "m", "a">>}

IsAudio(file_path) == Lower(file_path.suffix) \in audio_extensions

ILLEGAL_CHARS == {"<", ">", ":", "\"", "/", "\\", "|", "?", "*"}

\* sanitize_filename (lines 221-225)
sanitize_filename(filename) ==
    [i \in 1..Len(filename) |->
        IF filename[i] \in ILLEGAL_CHARS THEN "_" ELSE filename[i]]

SEPARATORS == {"-", "_", " "}

\* the identity test with the separator test left out
IdentityMatchPrefix(stem, song_id_str) == StartsWith(stem, song_id_str)

\* the identity test of lines 254-256
IdentityMatch(stem, song_id_str) ==
    /\ StartsWith(stem, song_id_str)
    /\ \/ Len(stem) = Len(song_id_str)
       \/ stem[Len(song_id_str) + 1] \in SEPARATORS

\* the name test of line 272
NameMatch(stem, song_name_clean) == Contains(Lower(stem), song_name_clean)

\* sorted(matches, key=lambda x: x.stem): a stable sort by stem
RECURSIVE SortedByStem(_)
SortedByStem(matches) ==
    IF matches = <<>> THEN <<>>
    ELSE LET last == matches[Len(matches)]
             init == SortedByStem(SubSeq(matches, 1, Len(matches) - 1))
             k == Cardinality({i \in 1..Len(init) : ~StrLess(last.stem, init[i].stem)})
         IN  SubSeq(init, 1, k) \o <<last>> \o SubSeq(init, k + 1, Len(init))

\* find_audio_files (lines 228-279): the files whose stem is the id or the id
\* and a separator; when there is none (or no id), the files whose stem
\* holds the name; sorted by stem
find_audio_files(directory, song_id, song_name) ==
    LET song_id_str == Strip(song_id)
        by_id == IF song_id # <<>> /\ song_id_str # <<>> /\ Lower(song_id) # <<"n", "a", "n">>
                 THEN SelectSeq(directory,
                          LAMBDA f : IsAudio(f) /\ IdentityMatch(f.stem, song_id_str))
                 ELSE <<>>
        song_name_clean == Lower(Strip(song_name))
        by_name == IF song_name # <<>>
                   THEN SelectSeq(directory,
                            LAMBDA f : IsAudio(f) /\ NameMatch(f.stem, song_name_clean))
                   ELSE <<>>
    IN  IF by_id # <<>> THEN SortedByStem(by_id) ELSE SortedByStem(by_name)

\* get_id_value of step 2 (lines 282-289) on a cell read from the sheet
get_id_value2(id_raw) ==
    IF IsNa(id_raw) \/ id_raw = Str(<<>>) THEN <<>>
    ELSE IF id_raw.kind = "num" THEN IntToStr(id_raw.n)
    ELSE LET pf == ParseFloat(id_raw.s)
         IN  IF pf.ok THEN IntToStr(TruncFloat(pf)) ELSE Strip(id_raw.s)

\* ------------------------------------------------------- step 2: the tasks

PLANNER_COLUMNS == {"ID", "name", "key", "bpm", "product"}

\* float(anchor_bpm) (lines 363-367, 375-379) on a cell: whether it converts,
\* whether the result is nan, and the value (tempos are whole numbers)
BpmFloat(cell) ==
    CASE cell.kind = "nan" -> [ok |-> TRUE, nan |-> TRUE, v |-> 0]
      [] cell.kind = "num" -> [ok |-> TRUE, nan |-> FALSE, v |-> cell.n]
      [] OTHER -> LET pf == ParseFloat(cell.s)
                  IN  [ok |-> pf.ok, nan |-> FALSE, v |-> IF pf.ok THEN TruncFloat(pf) ELSE 0]

\* match_bpm > 0 (line 390); a comparison with nan is False
TempoDefined(anchor_bpm, match_bpm) == ~match_bpm.nan /\ match_bpm.v > 0

\* anchor_bpm / match_bpm (line 390) as a fraction; nan when the anchor's
\* tempo is nan
TempoRate(anchor_bpm, match_bpm) ==
    [nan |-> anchor_bpm.nan, num |-> anchor_bpm.v, den |-> match_bpm.v]

\* product_name (lines 353-355)
ProductName(cell, pair_idx) ==
    LET product_name == Strip(PyStr(cell))
    IN  IF product_name = <<>>
        THEN <<"p", "a", "i", "r", "_">> \o IntToStr(pair_idx + 1)
        ELSE product_name

\* the tasks of a pair with only the first file of the match song
MatchTasksFirstOnly(match_audio_files, task) ==
    IF match_audio_files = <<>> THEN <<>>
    ELSE <<[task EXCEPT !.audio_file = match_audio_files[1]]>>

\* one task for every file of the match song (lines 403-415)
MatchTasks(match_audio_files, task) ==
    [i \in 1..Len(match_audio_files) |-> [task EXCEPT !.audio_file = match_audio_files[i]]]

\* calculate_semitone_shift with its arguments exchanged
ShiftTowardsMatch(match_key, anchor_key) == calculate_semitone_shift(anchor_key, match_key)

\* semitone_shift = calculate_semitone_shift(match_key, anchor_key) (line 385)
ShiftOntoAnchor(match_key, anchor_key) == calculate_semitone_shift(match_key, anchor_key)

\* semitone_shift is not None (line 386)
KeyResolved(shift) == shift # <<>>

\* one iteration of the loop of lines 345-415: the tasks of pair pair_idx
\* (counted from 0) of the sheet rows, none when the pair is skipped.  A task
\* has the keys of the dict of lines 404-414; pair, which is no key of the
\* dict, names the iteration that appended it
PairTasks(rows, pair_idx, directory) ==
    LET anchor_song == rows[2 * pair_idx + 1]
        match_song == rows[2 * pair_idx + 2]
        product_name == ProductName(anchor_song.product, pair_idx)
        anchor_id == get_id_value2(anchor_song.ID)
        anchor_name == Strip(PyStr(anchor_song.name))
        anchor_key == Strip(PyStr(anchor_song.key))
        anchor_bpm == BpmFloat(anchor_song.bpm)
        match_id == get_id_value2(match_song.ID)
        match_name == Strip(PyStr(match_song.name))
        match_key == Strip(PyStr(match_song.key))
        match_bpm == BpmFloat(match_song.bpm)
        semitone_shift == ShiftOntoAnchor(match_key, anchor_key)
    IN  IF ~anchor_bpm.ok \/ ~match_bpm.ok THEN <<>>
        ELSE IF ~KeyResolved(semitone_shift) THEN <<>>
        ELSE IF ~TempoDefined(anchor_bpm, match_bpm) THEN <<>>
        ELSE MatchTasks(find_audio_files(directory, match_id, match_name),
                        [pair |-> pair_idx + 1,
                         product_name |-> product_name,
                         anchor_audio_files |-> find_audio_files(directory, anchor_id, anchor_name),
                         anchor_id |-> anchor_id,
                         anchor_name |-> anchor_name,
                         audio_file |-> <<>>,
                         match_id |-> match_id,
                         match_name |-> match_name,
                         semitone_shift |-> semitone_shift[3],
                         tempo_rate |-> TempoRate(anchor_bpm, match_bpm)])

\* the loop left at the first pair whose keys do not resolve
RECURSIVE BuildTaskListBreak(_, _, _)
BuildTaskListBreak(rows, num_pairs, directory) ==
    IF num_pairs = 0 THEN <<>>
    ELSE IF \E p \in 0..(num_pairs - 1) :
                ~KeyResolved(ShiftOntoAnchor(Strip(PyStr(rows[2 * p + 2].key)),
                                             Strip(PyStr(rows[2 * p + 1].key))))
         THEN BuildTaskListBreak(rows, num_pairs - 1, directory)
         ELSE BuildTaskListBreak(rows, num_pairs - 1, directory)
              \o PairTasks(rows, num_pairs - 1, directory)

\* task_list after the loop of lines 345-415 has handled the first num_pairs
\* pairs
RECURSIVE BuildTaskList(_, _, _)
BuildTaskList(rows, num_pairs, directory) ==
    IF num_pairs = 0 THEN <<>>
    ELSE BuildTaskList(rows, num_pairs - 1, directory)
         \o PairTasks(rows, num_pairs - 1, directory)

\* ------------------------------------------------------- step 1: the table

VARIABLES
    columns,          \* the column names of the input sheet (synonyms merged)
    table,            \* the input rows: [id, key, bpm, gender] cells
    key_range,        \* PipelineWorker.key_range
    bpm_range,        \* PipelineWorker.bpm_range
    pc,               \* where the worker thread is
    is_cancelled,     \* PipelineWorker.is_cancelled
    df,               \* classify_songs_core: the normalised rows
    groups,           \* classify_songs_core: groups
    used_as_anchor,   \* classify_songs_core: used_as_anchor
    group_pos,        \* classify_songs_core: position of the output loop
    current_group_num,\* classify_songs_core: current_group_num
    ws,               \* classify_songs_core: the worksheet rows written so far
    sink,             \* the classified sheet on disk: [written, rows]
    stages,           \* the stages the worker has started, in order
    finished,         \* the finished_signal emissions, in order
    errors,           \* the number of error_occurred emissions
    rerun,            \* whether this is the second execution on the same input
    prev,             \* what the first execution produced
    probe             \* a single call of a key function: [fn, args, done, ret]

VARIABLES
    classified,       \* the classified sheet as step 2 reads it: [columns, rows]
    audio_dir,        \* the walk of the audio directory: a sequence of files
    output_dir,       \* the files of step 2's output directory: [folder, stem]
    task_list,        \* process_pitch_tempo_core: task_list
    total_tasks,      \* process_pitch_tempo_core: total_tasks
    task_idx,         \* process_pitch_tempo_core: the tasks the loop has visited
    success_count,    \* process_pitch_tempo_core: success_count
    processed_files,  \* process_pitch_tempo_core: processed_files
    copied_anchors,   \* process_pitch_tempo_core: copied_anchors
    dsp_calls,        \* the calls of process_stereo_audio of this execution
    copies,           \* the anchor files copied or converted by this execution
    failed,           \* the tasks of this execution whose body raised
    result,           \* what process_pitch_tempo_core returned, <<>> before
    start_dir         \* output_dir when this execution began

VARIABLES
    polls,            \* the calls of a progress callback: [stage, unit, answer]
    gap_duration,     \* PipelineWorker.gap_duration, in milliseconds
    concat_pair,      \* concat_audio_core: the pairs the loop has visited
    concat_success,   \* concat_audio_core: success_count
    concat_started,   \* the pairs whose try block (lines 211-233) was entered
    concat_failed,    \* the pairs whose try block raised
    exported,         \* the files exported by step 3: [pair, name, audio]
    concat_result,    \* what concat_audio_core returned, <<>> before
    cleaned           \* whether run() called shutil.rmtree (line 75)

inputVars == <<columns, table, key_range, bpm_range>>
step3Vars == <<gap_duration, concat_pair, concat_success, concat_started,
               concat_failed, exported, concat_result, cleaned>>
step2Vars == <<classified, audio_dir, output_dir, task_list, total_tasks, task_idx,
               success_count, processed_files, copied_anchors, dsp_calls, copies,
               failed, result, start_dir>>
step1Vars == <<df, groups, used_as_anchor, group_pos, current_group_num, ws>>
workerVars == <<pc, is_cancelled, stages, finished, errors>>

REQUIRED_COLUMNS == {"name", "key", "bpm"}

\* pd.to_numeric(errors='coerce') on one cell: NaN when it is no number
\* (the tempos of the model are whole numbers)
ToNumeric(cell) ==
    CASE cell.kind = "num" -> cell
      [] cell.kind = "str" ->
            LET pf == ParseFloat(cell.s)
            IN  IF pf.ok THEN Num(TruncFloat(pf)) ELSE NaN
      [] OTHER -> NaN

\* df['性别'].fillna('').astype(str).str.strip()
GenderText(cell) == IF IsNa(cell) THEN <<>> ELSE Strip(PyStr(cell))

\* df['gender_normalized']
NormalizeGender(cell) == Lower(GenderText(cell))

\* the id column: 'ID' renamed to 'id', or df.index + 1 when the sheet has none
IdCell(tbl, cols, i) == IF "ID" \in cols THEN tbl[i].id ELSE Num(i)

\* the checks of lines 195-265; FALSE stands for the ValueError raised
HasRequiredColumns(cols) == REQUIRED_COLUMNS \subseteq cols
KeysResolve(tbl) == \A i \in 1..Len(tbl) : key_to_number(tbl[i].key).ok
TemposNumeric(tbl) == \A i \in 1..Len(tbl) : ~IsNa(ToNumeric(tbl[i].bpm))
InputValidUncheckedTempo(tbl, cols) ==
    HasRequiredColumns(cols) /\ KeysResolve(tbl)

InputValid(tbl, cols) ==
    HasRequiredColumns(cols) /\ KeysResolve(tbl) /\ TemposNumeric(tbl)

\* the data frame after lines 203-262
LoadFrame(tbl, cols) ==
    [i \in 1..Len(tbl) |->
        [id |-> IdCell(tbl, cols, i),
         key_original |-> tbl[i].key,
         key_num |-> key_to_number(tbl[i].key).v,
         bpm |-> ToNumeric(tbl[i].bpm).n,
         gender |-> GenderText(tbl[i].gender),
         gender_normalized |-> NormalizeGender(tbl[i].gender)]]

\* ------------------------------------------------------ step 1: grouping

\* Matches with a tempo test that excludes the threshold itself
MatchesStrictTempo(d, anchor_idx, candidate_idx, kr, br) ==
    /\ d[candidate_idx].gender_normalized = d[anchor_idx].gender_normalized
    /\ ~(KeyDiffCircular(d[candidate_idx].key_num, d[anchor_idx].key_num) > kr)
    /\ Abs(d[candidate_idx].bpm - d[anchor_idx].bpm) < br

\* Matches without the gender test
MatchesAnyGender(d, anchor_idx, candidate_idx, kr, br) ==
    /\ ~(KeyDiffCircular(d[candidate_idx].key_num, d[anchor_idx].key_num) > kr)
    /\ Abs(d[candidate_idx].bpm - d[anchor_idx].bpm) <= br

\* the three tests of the candidate scan (lines 291-304)
Matches(d, anchor_idx, candidate_idx, kr, br) ==
    /\ d[candidate_idx].gender_normalized = d[anchor_idx].gender_normalized
    /\ ~(KeyDiffCircular(d[candidate_idx].key_num, d[anchor_idx].key_num) > kr)
    /\ Abs(d[candidate_idx].bpm - d[anchor_idx].bpm) <= br

\* the candidate loop that skips the anchor alone, not the earlier anchors
RECURSIVE ScanEveryOther(_, _, _, _, _, _)
ScanEveryOther(d, used, anchor_idx, candidate_idx, kr, br) ==
    IF candidate_idx > Len(d) THEN <<>>
    ELSE LET rest == ScanEveryOther(d, used, anchor_idx, candidate_idx + 1, kr, br)
         IN  IF candidate_idx = anchor_idx THEN rest
             ELSE IF Matches(d, anchor_idx, candidate_idx, kr, br)
                  THEN <<candidate_idx>> \o rest
                  ELSE rest

\* the candidate loop that puts each match in front of the earlier ones
RECURSIVE ScanPrepending(_, _, _, _, _, _)
ScanPrepending(d, used, anchor_idx, candidate_idx, kr, br) ==
    IF candidate_idx > Len(d) THEN <<>>
    ELSE LET rest == ScanPrepending(d, used, anchor_idx, candidate_idx + 1, kr, br)
         IN  IF candidate_idx \in used THEN rest
             ELSE IF Matches(d, anchor_idx, candidate_idx, kr, br)
                  THEN rest \o <<candidate_idx>>
                  ELSE rest

\* the candidate loop of one anchor, from candidate_idx on (lines 283-304)
RECURSIVE ScanCandidates(_, _, _, _, _, _)
ScanCandidates(d, used, anchor_idx, candidate_idx, kr, br) ==
    IF candidate_idx > Len(d) THEN <<>>
    ELSE LET rest == ScanCandidates(d, used, anchor_idx, candidate_idx + 1, kr, br)
         IN  IF candidate_idx \in used THEN rest
             ELSE IF Matches(d, anchor_idx, candidate_idx, kr, br)
                  THEN <<candidate_idx>> \o rest
                  ELSE rest

\* ------------------------------------------------------- step 1: output

\* Python's truthiness of a cell value: NaN is a non-zero float, hence true
Truthy(cell) ==
    CASE cell.kind = "nan" -> TRUE
      [] cell.kind = "num" -> cell.n # 0
      [] OTHER -> cell.s # <<>>

\* int(value) if float(value) == int(float(value)) else str(value), with
\* except: str(value) (lines 376-379 and 412-415); the result as a cell
ConvertId(value) ==
    IF value.kind = "num" THEN value
    ELSE LET pf == ParseFloat(value.s)
             pi == ParseInt(value.s)
         IN  IF pf.ok /\ pf.intlike /\ pi.ok THEN Num(pi.v) ELSE Str(value.s)

\* get_id_value of the classifier (lines 372-380), as the f-string prints it
get_id_value(song_data) ==
    LET value == song_data.id
    IN  IF Truthy(value) /\ ~IsNa(value) THEN PyStr(ConvertId(value)) ELSE <<>>

\* the suffix of a product name ("拼接成品" in the source)
PRODUCT_SUFFIX == <<"m", "a", "s", "h", "u", "p">>

\* combined_name (line 404)
CombinedName(anchor_id, match_id) ==
    anchor_id \o <<"-">> \o match_id \o <<"-">> \o PRODUCT_SUFFIX

\* the ID cell of an output row (lines 409-415)
IdOut(value) ==
    IF Truthy(value) /\ ~IsNa(value) THEN ConvertId(value) ELSE value

\* one output row (lines 407-447); product is the merged cell, held by the
\* anchor row of a pair and empty in the match row
SinkRow(song, product) ==
    [ID |-> IdOut(song.id),
     key |-> song.key_original,
     bpm |-> song.bpm,
     gender |-> song.gender,
     product |-> product]

\* the rows of the first match of a group only
PairRowsFirstMatch(d, group_indices, j) ==
    IF j > Len(group_indices) THEN <<>>
    ELSE LET anchor_song == d[group_indices[1]]
             match_song == d[group_indices[j]]
             combined_name == CombinedName(get_id_value(anchor_song),
                                           get_id_value(match_song))
         IN  <<SinkRow(anchor_song, Str(combined_name)), SinkRow(match_song, NaN)>>

\* the rows of one group, from match position j on (lines 399-459)
RECURSIVE PairRows(_, _, _)
PairRows(d, group_indices, j) ==
    IF j > Len(group_indices) THEN <<>>
    ELSE LET anchor_song == d[group_indices[1]]
             match_song == d[group_indices[j]]
             combined_name == CombinedName(get_id_value(anchor_song),
                                           get_id_value(match_song))
         IN  <<SinkRow(anchor_song, Str(combined_name)), SinkRow(match_song, NaN)>>
                 \o PairRows(d, group_indices, j + 1)

\* ------------------------------------------------------------ the inputs

ALL_COLUMNS == {"name", "key", "bpm", "ID"}

Row(id, key, bpm, gender) == [id |-> id, key |-> key, bpm |-> bpm, gender |-> gender]

\* every table of at most MaxSongs rows drawn from rows
Tables(rows) == UNION {[1..n -> rows] : n \in 0..MaxSongs}

FemaleCell == Str(<<"f">>)

\* keys and tempos around the two thresholds; one gender, no ID column
GroupingRows ==
    {Row(NaN, k, b, FemaleCell) :
        k \in {Str(<<"C">>), Str(<<"D">>), Str(<<"B">>)},
        b \in {Num(120), Num(125), Num(131)}}
GroupingRanges == {<<2, 5>>, <<1, 6>>}

\* spellings of the gender cell; equal key and tempo, no ID column
GenderRows ==
    {Row(NaN, Str(<<"C">>), Num(120), g) :
        g \in {Str(<<"f">>), Str(<<"F", " ">>), Str(<<"m">>), Str(<<>>), NaN}}

\* spellings of the ID cell; equal key, tempo and gender
IdRows ==
    {Row(i, Str(<<"C">>), Num(120), FemaleCell) :
        i \in {Num(0), Num(7), Num(12), NaN, Str(<<>>), Str(<<"0", "7">>),
               Str(<<"1", ".", "0">>)}}

\* keys and tempos that do and do not resolve
ValidationRows ==
    {Row(NaN, k, b, FemaleCell) :
        k \in {Str(<<"c", "#">>), Num(14), Str(<<"H">>), NaN},
        b \in {Num(120), Str(<<"x">>), NaN}}

\* the scenario of the specification
ScenarioTable ==
    << Row(Num(1), Str(<<"C">>), Num(120), Str(<<"f">>)),
       Row(Num(2), Str(<<"D">>), Num(122), Str(<<"f">>)),
       Row(Num(3), Str(<<"C">>), Num(150), Str(<<"m">>)) >>

InitInput ==
    \/ /\ columns = REQUIRED_COLUMNS
       /\ table \in Tables(GroupingRows)
       /\ \E r \in GroupingRanges : key_range = r[1] /\ bpm_range = r[2]
    \/ /\ columns = REQUIRED_COLUMNS
       /\ table \in Tables(GenderRows)
       /\ key_range = 2 /\ bpm_range = 5
    \/ /\ columns = ALL_COLUMNS
       /\ table \in Tables(IdRows) \cup {ScenarioTable}
       /\ key_range = 2 /\ bpm_range = 5
    \/ /\ columns = REQUIRED_COLUMNS
       /\ table \in Tables(ValidationRows)
       /\ key_range = 2 /\ bpm_range = 5
    \/ /\ columns \in {ALL_COLUMNS \ {c} : c \in REQUIRED_COLUMNS}
       /\ table \in Tables(IdRows)
       /\ key_range = 2 /\ bpm_range = 5

\* a worker that has not started, and the locals of a call not yet made
InitWorker ==
    /\ pc = "step1"
    /\ is_cancelled = FALSE
    /\ stages = <<>>
    /\ finished = <<>>
    /\ errors = 0

NoFrame ==
    /\ df = <<>>
    /\ groups = <<>>
    /\ used_as_anchor = {}
    /\ group_pos = 0
    /\ current_group_num = 0
    /\ ws = <<>>

NoSink == [written |-> FALSE, rows |-> <<>>]
NoPrev == [grouped |-> FALSE, groups |-> <<>>, complete |-> FALSE, ws |-> <<>>]
NoProbe == [fn |-> "none", args |-> <<>>, done |-> FALSE, ret |-> <<>>]

\* process_pitch_tempo_core has not been called
NoTasks ==
    /\ task_list = <<>>
    /\ total_tasks = 0
    /\ task_idx = 0
    /\ success_count = 0
    /\ processed_files = {}
    /\ copied_anchors = {}
    /\ dsp_calls = <<>>
    /\ copies = <<>>
    /\ failed = {}
    /\ result = <<>>

NoSheet == [readable |-> FALSE, columns |-> {}, rows |-> <<>>]

\* no progress callback was called and concat_audio_core was not called
NoAssembler ==
    /\ polls = <<>>
    /\ concat_pair = 0
    /\ concat_success = 0
    /\ concat_started = {}
    /\ concat_failed = {}
    /\ exported = <<>>
    /\ concat_result = <<>>
    /\ cleaned = FALSE

\* step 2 is not modelled: no sheet is read and no file is looked at
NoPlanner ==
    /\ classified = NoSheet
    /\ audio_dir = <<>>
    /\ output_dir = {}
    /\ start_dir = {}
    /\ NoTasks

Init ==
    /\ InitInput
    /\ InitWorker
    /\ NoFrame
    /\ sink = NoSink
    /\ rerun = FALSE
    /\ prev = NoPrev
    /\ probe = NoProbe
    /\ NoPlanner
    /\ gap_duration = 0
    /\ NoAssembler

\* ---------------------------------------------- step 1: classify_songs_core

\* step1_classify calls classify_songs_core, which raises on its input
\* (lines 200, 259, 264); the handler of step1_classify emits error_occurred
\* and returns False, and run() returns without a finished_signal
Step1Reject ==
    /\ pc = "step1"
    /\ ~InputValid(table, columns)
    /\ stages' = Append(stages, "step1")
    /\ errors' = errors + 1
    /\ pc' = "stopped"
    /\ UNCHANGED <<inputVars, step1Vars, is_cancelled, finished, sink, rerun, prev, probe, step2Vars, polls, step3Vars>>

\* Step1Load with a set of anchors that outlives the call
Step1LoadStaleAnchors ==
    /\ pc = "step1"
    /\ InputValid(table, columns)
    /\ stages' = Append(stages, "step1")
    /\ df' = LoadFrame(table, columns)
    /\ groups' = <<>>
    /\ pc' = "grouping"
    /\ UNCHANGED <<inputVars, used_as_anchor, group_pos, current_group_num, ws,
                   is_cancelled, finished, errors, sink, rerun, prev, probe, step2Vars, polls, step3Vars>>

\* the input passes the checks: the frame is normalised and the grouping
\* loop starts with no group and no anchor
Step1Load ==
    /\ pc = "step1"
    /\ InputValid(table, columns)
    /\ stages' = Append(stages, "step1")
    /\ df' = LoadFrame(table, columns)
    /\ groups' = <<>>
    /\ used_as_anchor' = {}
    /\ pc' = "grouping"
    /\ UNCHANGED <<inputVars, group_pos, current_group_num, ws, is_cancelled,
                   finished, errors, sink, rerun, prev, probe, step2Vars, polls, step3Vars>>

\* one iteration of the anchor loop (lines 273-306)
GroupAnchor ==
    /\ pc = "grouping"
    /\ Len(groups) < Len(df)
    /\ LET anchor_idx == Len(groups) + 1
           used == used_as_anchor \cup {anchor_idx}
           current_group == <<anchor_idx>>
               \o ScanCandidates(df, used, anchor_idx, 1, key_range, bpm_range)
       IN  /\ used_as_anchor' = used
           /\ groups' = Append(groups, current_group)
    /\ UNCHANGED <<inputVars, df, group_pos, current_group_num, ws, workerVars,
                   sink, rerun, prev, probe, step2Vars, polls, step3Vars>>

\* the anchor loop is over: the workbook is created and the output loop
\* starts at the first group (lines 309-369)
OpenWorkbook ==
    /\ pc = "grouping"
    /\ Len(groups) = Len(df)
    /\ ws' = <<>>
    /\ current_group_num' = 0
    /\ group_pos' = 1
    /\ pc' = "output"
    /\ UNCHANGED <<inputVars, df, groups, used_as_anchor, is_cancelled, stages,
                   finished, errors, sink, rerun, prev, probe, step2Vars, polls, step3Vars>>

\* progress_callback of step1_classify (lines 113-118): whether to go on
Step1Continue == ~is_cancelled

\* an iteration of the output loop on a group without a match (line 383)
EmitSkip ==
    /\ pc = "output"
    /\ group_pos <= Len(groups)
    /\ Len(groups[group_pos]) = 1
    /\ group_pos' = group_pos + 1
    /\ UNCHANGED <<inputVars, df, groups, used_as_anchor, current_group_num, ws,
                   workerVars, sink, rerun, prev, probe, step2Vars, polls, step3Vars>>

\* an iteration whose progress callback answers False: break (lines 386-392)
EmitCancelled ==
    /\ pc = "output"
    /\ group_pos <= Len(groups)
    /\ Len(groups[group_pos]) > 1
    /\ ~Step1Continue
    /\ current_group_num' = current_group_num + 1
    /\ polls' = Append(polls, [stage |-> "step1", unit |-> current_group_num + 1,
                                answer |-> FALSE])
    /\ pc' = "save"
    /\ UNCHANGED <<inputVars, df, groups, used_as_anchor, group_pos, ws,
                   is_cancelled, stages, finished, errors, sink, rerun, prev, probe,
                   step2Vars, step3Vars>>

\* an iteration that writes the rows of one group (lines 386-459)
EmitGroup ==
    /\ pc = "output"
    /\ group_pos <= Len(groups)
    /\ Len(groups[group_pos]) > 1
    /\ Step1Continue
    /\ current_group_num' = current_group_num + 1
    /\ polls' = Append(polls, [stage |-> "step1", unit |-> current_group_num + 1,
                                answer |-> TRUE])
    /\ ws' = ws \o PairRows(df, groups[group_pos], 2)
    /\ group_pos' = group_pos + 1
    /\ UNCHANGED <<inputVars, df, groups, used_as_anchor, workerVars, sink,
                   rerun, prev, probe, step2Vars, step3Vars>>

\* the output loop has ended (every group visited) or was left by break
OutputLoopOver == pc = "save" \/ (pc = "output" /\ group_pos > Len(groups))

\* wb.save (line 470), after the loop ended or was left; classify_songs_core
\* returns and step1_classify returns True
SaveWorkbook ==
    /\ OutputLoopOver
    /\ sink' = [written |-> TRUE, rows |-> ws]
    /\ pc' = "check1"
    /\ UNCHANGED <<inputVars, step1Vars, is_cancelled, stages, finished, errors,
                   rerun, prev, probe, step2Vars, polls, step3Vars>>

\* ------------------------------------------------------ PipelineWorker.run

\* cancel(), called by the window's stop button while the worker runs
Cancel ==
    /\ pc \notin {"stopped", "done"}
    /\ ~is_cancelled
    /\ is_cancelled' = TRUE
    /\ UNCHANGED <<inputVars, step1Vars, pc, stages, finished, errors, sink,
                   rerun, prev, probe, step2Vars, polls, step3Vars>>

\* the check of is_cancelled between two stages (lines 55-57 and 63-65)
CheckCancelled ==
    /\ pc \in {"check1", "check2"}
    /\ is_cancelled
    /\ finished' = Append(finished, FALSE)
    /\ pc' = "stopped"
    /\ UNCHANGED <<inputVars, step1Vars, is_cancelled, stages, errors, sink,
                   rerun, prev, probe, step2Vars, polls, step3Vars>>

CheckContinue ==
    /\ pc \in {"check1", "check2"}
    /\ ~is_cancelled
    /\ pc' = IF pc = "check1" THEN "step2" ELSE "step3"
    /\ UNCHANGED <<inputVars, step1Vars, is_cancelled, stages, finished, errors,
                   sink, rerun, prev, probe, step2Vars, polls, step3Vars>>

\* step2_pitch_tempo whose failure does not stop run()
Step2PitchTempoGoesOn ==
    /\ pc = "step2"
    /\ stages' = Append(stages, "step2")
    /\ \E raised \in BOOLEAN :
          /\ errors' = IF raised THEN errors + 1 ELSE errors
          /\ pc' = "check2"
    /\ UNCHANGED <<inputVars, step1Vars, is_cancelled, finished, sink, rerun, prev, probe, step2Vars, polls, step3Vars>>

\* step2_pitch_tempo (lines 141-184): the stage runs and returns True, or an
\* exception escapes process_pitch_tempo_core and it returns False
Step2PitchTempo ==
    /\ pc = "step2"
    /\ stages' = Append(stages, "step2")
    /\ \E raised \in BOOLEAN :
          /\ errors' = IF raised THEN errors + 1 ELSE errors
          /\ pc' = IF raised THEN "stopped" ELSE "check2"
    /\ UNCHANGED <<inputVars, step1Vars, is_cancelled, finished, sink, rerun, prev, probe, step2Vars, polls, step3Vars>>

\* step3_concat (lines 186-228), then the cleanup and finished_signal(True)
\* of run() (lines 71-86); or an exception and False
Step3Concat ==
    /\ pc = "step3"
    /\ stages' = Append(stages, "step3")
    /\ \E raised \in BOOLEAN :
          /\ errors' = IF raised THEN errors + 1 ELSE errors
          /\ finished' = IF raised THEN finished ELSE Append(finished, TRUE)
          /\ pc' = IF raised THEN "stopped" ELSE "done"
    /\ UNCHANGED <<inputVars, step1Vars, is_cancelled, sink, rerun, prev, probe, step2Vars, polls, step3Vars>>

\* ------------------------------------------ step 2: process_pitch_tempo_core

\* output_folder / f"{safe_filename}.wav" (lines 430-431, 437-439, 477-479)
OutputPath(product_name, stem) ==
    [folder |-> sanitize_filename(product_name), stem |-> sanitize_filename(stem)]

\* file_key (line 458)
FileKey(product_name, audio_file) == <<product_name, audio_file.stem>>

\* no test for a product or a file already copied
AnchorCopyAlways(product_name, copied, output_path, out) == TRUE

\* an anchor file is copied when its product has no copy yet (line 435) and
\* the file is not in the folder (line 441)
AnchorCopyDue(product_name, copied, output_path, out) ==
    product_name \notin copied /\ output_path \notin out

\* the loop of lines 436-452 from its k-th file on: the folder and the copies
\* made, and whether a copy raised (the copy of file number fail, if due)
RECURSIVE CopyAnchors(_, _, _, _, _, _)
CopyAnchors(task, copied, out, made, k, fail) ==
    IF k > Len(task.anchor_audio_files)
    THEN [out |-> out, made |-> made, raised |-> FALSE]
    ELSE LET stem == task.anchor_audio_files[k].stem
             output_path == OutputPath(task.product_name, stem)
         IN  IF ~AnchorCopyDue(task.product_name, copied, output_path, out)
             THEN CopyAnchors(task, copied, out, made, k + 1, fail)
             ELSE IF fail = k
             THEN [out |-> out, made |-> made, raised |-> TRUE]
             ELSE CopyAnchors(task, copied, out \cup {output_path},
                              Append(made, [product_name |-> task.product_name,
                                            stem |-> stem]),
                              k + 1, fail)

\* the key recorded whether or not the file was written
RecordKeyAlways(processed, file_key, written) == processed \cup {file_key}

\* processed_files.add(file_key) (line 489), reached only after sf.write
RecordKey(processed, file_key, written) ==
    IF written THEN processed \cup {file_key} ELSE processed

\* the loop left when a task raised
AfterTaskAbort(idx, total, raised) == IF raised THEN total ELSE idx + 1

\* the loop goes on to the next task, also from the except clause (line 492)
AfterTask(idx, total, raised) == idx + 1

\* the places of a task's body that may raise: mkdir, the copy of an anchor
\* file, librosa.load, process_stereo_audio and sf.write; mkdir is called
\* with exist_ok=True (line 432) and does not raise for a folder that is
\* there, as the folder of a file in out is
Faults(task, out) ==
    {[at |-> a, i |-> 0] : a \in {"none", "load", "dsp", "save"}}
    \cup (IF \A path \in out : path.folder # sanitize_filename(task.product_name)
          THEN {[at |-> "mkdir", i |-> 0]}
          ELSE {})
    \cup {[at |-> "copy", i |-> k] : k \in 1..Len(task.anchor_audio_files)}

HasPlannerColumns(sheet) == PLANNER_COLUMNS \subseteq sheet.columns

\* df.empty or missing_cols (lines 326, 333)
NothingToPlan(sheet) == sheet.rows = <<>> \/ ~HasPlannerColumns(sheet)

\* pd.read_excel raises in process_pitch_tempo_core (line 323);
\* step2_pitch_tempo emits error_occurred and returns False (lines 181-184)
Step2ReadFails ==
    /\ pc = "step2"
    /\ ~classified.readable
    /\ stages' = Append(stages, "step2")
    /\ errors' = errors + 1
    /\ pc' = "stopped"
    /\ UNCHANGED <<inputVars, step1Vars, is_cancelled, finished, sink, rerun, prev,
                   probe, step2Vars, polls, step3Vars>>

\* the sheet is empty or lacks a column: process_pitch_tempo_core returns
\* (0, 0) (lines 326-335) and step2_pitch_tempo returns True (line 179)
Step2ReturnEmpty ==
    /\ pc = "step2"
    /\ classified.readable
    /\ NothingToPlan(classified)
    /\ stages' = Append(stages, "step2")
    /\ result' = <<0, 0>>
    /\ pc' = "check2"
    /\ UNCHANGED <<inputVars, step1Vars, is_cancelled, finished, errors, sink, rerun,
                   prev, probe, classified, audio_dir, output_dir, task_list,
                   total_tasks, task_idx, success_count, processed_files,
                   copied_anchors, dsp_calls, copies, failed, start_dir,
                   polls, step3Vars>>

\* the task list is built (lines 337-415) and the counters of the task loop
\* are set (lines 418-420)
Step2Plan ==
    /\ pc = "step2"
    /\ classified.readable
    /\ ~NothingToPlan(classified)
    /\ stages' = Append(stages, "step2")
    /\ task_list' = BuildTaskList(classified.rows, Len(classified.rows) \div 2, audio_dir)
    /\ total_tasks' = Len(task_list')
    /\ task_idx' = 0
    /\ success_count' = 0
    /\ processed_files' = {}
    /\ copied_anchors' = {}
    /\ pc' = "tasks"
    /\ UNCHANGED <<inputVars, step1Vars, is_cancelled, finished, errors, sink, rerun,
                   prev, probe, classified, audio_dir, output_dir, dsp_calls, copies,
                   failed, result, start_dir,
                   polls, step3Vars>>

\* progress_callback returns False (lines 425-426, worker lines 156-158): the
\* loop is left and the counts are returned
TaskCancelled ==
    /\ pc = "tasks"
    /\ task_idx < Len(task_list)
    /\ is_cancelled
    /\ polls' = Append(polls, [stage |-> "step2", unit |-> task_idx + 1,
                                answer |-> FALSE])
    /\ result' = <<success_count, total_tasks>>
    /\ pc' = "check2"
    /\ UNCHANGED <<inputVars, step1Vars, is_cancelled, stages, finished, errors, sink,
                   rerun, prev, probe, classified, audio_dir, output_dir, task_list,
                   total_tasks, task_idx, success_count, processed_files,
                   copied_anchors, dsp_calls, copies, failed, start_dir, step3Vars>>

\* the body of the task loop for one task (lines 428-495): the folder is
\* made, the anchor files are copied unless their product has them, a file
\* already processed is counted and skipped, otherwise the file is loaded,
\* transformed and saved, its key recorded and counted; whatever raises is
\* caught and the loop goes on
RunTask ==
    /\ pc = "tasks"
    /\ task_idx < Len(task_list)
    /\ ~is_cancelled
    /\ \E fault \in Faults(task_list[task_idx + 1], output_dir) :
          LET task == task_list[task_idx + 1]
              c == IF fault.at = "mkdir"
                   THEN [out |-> output_dir, made |-> <<>>, raised |-> TRUE]
                   ELSE CopyAnchors(task, copied_anchors, output_dir, <<>>, 1,
                                    IF fault.at = "copy" THEN fault.i ELSE 0)
              file_key == FileKey(task.product_name, task.audio_file)
              duplicate == ~c.raised /\ file_key \in processed_files
              loaded == ~c.raised /\ ~duplicate /\ fault.at # "load"
              written == loaded /\ fault.at \notin {"dsp", "save"}
              raised == c.raised \/ (~duplicate /\ ~written)
          IN  /\ output_dir' = c.out \cup
                    (IF written
                     THEN {OutputPath(task.product_name, task.audio_file.stem)}
                     ELSE {})
              /\ copies' = copies \o
                    [i \in 1..Len(c.made) |->
                        [task |-> task_idx + 1,
                         product_name |-> c.made[i].product_name,
                         stem |-> c.made[i].stem]]
              /\ copied_anchors' = IF c.raised THEN copied_anchors
                                   ELSE copied_anchors \cup {task.product_name}
              /\ dsp_calls' = IF loaded
                              THEN Append(dsp_calls,
                                          [task |-> task_idx + 1,
                                           product_name |-> task.product_name,
                                           audio_file |-> task.audio_file,
                                           semitone_shift |-> task.semitone_shift,
                                           tempo_rate |-> task.tempo_rate])
                              ELSE dsp_calls
              /\ processed_files' = IF c.raised \/ duplicate THEN processed_files
                                    ELSE RecordKey(processed_files, file_key, written)
              /\ success_count' = IF duplicate \/ written THEN success_count + 1
                                  ELSE success_count
              /\ failed' = IF raised THEN failed \cup {task_idx + 1} ELSE failed
              /\ task_idx' = AfterTask(task_idx, total_tasks, raised)
    /\ polls' = Append(polls, [stage |-> "step2", unit |-> task_idx + 1,
                                answer |-> TRUE])
    /\ UNCHANGED <<inputVars, step1Vars, workerVars, sink, rerun, prev, probe,
                   classified, audio_dir, task_list, total_tasks, result, start_dir,
                   step3Vars>>

\* the loop is over: process_pitch_tempo_core returns (line 497) and
\* step2_pitch_tempo returns True
Step2Return ==
    /\ pc = "tasks"
    /\ task_idx >= Len(task_list)
    /\ result' = <<success_count, total_tasks>>
    /\ pc' = "check2"
    /\ UNCHANGED <<inputVars, step1Vars, is_cancelled, stages, finished, errors, sink,
                   rerun, prev, probe, classified, audio_dir, output_dir, task_list,
                   total_tasks, task_idx, success_count, processed_files,
                   copied_anchors, dsp_calls, copies, failed, start_dir,
                   polls, step3Vars>>

\* ----------------------------------------------- step 3 behind step 2

ASSEMBLER_COLUMNS == {"ID", "product"}

HasAssemblerColumns(sheet) == ASSEMBLER_COLUMNS \subseteq sheet.columns

\* a column is missing or num_pairs == 0 (step3_concat.py lines 170-184)
NothingToAssemble(sheet) == ~HasAssemblerColumns(sheet) \/ Len(sheet.rows) \div 2 = 0

\* the sheet lacks a column or has no pair: concat_audio_core returns (0, 0)
\* (step3_concat.py lines 170-184), step3_concat returns True, run() removes
\* the directory of step 2 (lines 72-78; rmtree may fail) and emits
\* finished_signal(True) (lines 81-86)
ConcatReturnEmpty ==
    /\ pc = "step3"
    /\ NothingToAssemble(classified)
    /\ stages' = Append(stages, "step3")
    /\ \E removed \in BOOLEAN : output_dir' = IF removed THEN {} ELSE output_dir
    /\ finished' = Append(finished, TRUE)
    /\ pc' = "done"
    /\ UNCHANGED <<inputVars, step1Vars, is_cancelled, errors, sink, rerun, prev, probe,
                   classified, audio_dir, task_list, total_tasks, task_idx,
                   success_count, processed_files, copied_anchors, dsp_calls, copies,
                   failed, result, start_dir,
                   polls, step3Vars>>

\* the pairs are assembled: step3_concat returns True, the directory of step 2
\* is removed and finished_signal(True) is emitted; or the making of the
\* output directory raises (step3_concat.py line 187), error_occurred is
\* emitted and step3_concat returns False
ConcatRun ==
    /\ pc = "step3"
    /\ ~NothingToAssemble(classified)
    /\ stages' = Append(stages, "step3")
    /\ \E raised \in BOOLEAN :
          /\ errors' = IF raised THEN errors + 1 ELSE errors
          /\ finished' = IF raised THEN finished ELSE Append(finished, TRUE)
          /\ pc' = IF raised THEN "stopped" ELSE "done"
          /\ \E removed \in BOOLEAN :
                output_dir' = IF removed /\ ~raised THEN {} ELSE output_dir
    /\ UNCHANGED <<inputVars, step1Vars, is_cancelled, sink, rerun, prev, probe,
                   classified, audio_dir, task_list, total_tasks, task_idx,
                   success_count, processed_files, copied_anchors, dsp_calls, copies,
                   failed, result, start_dir,
                   polls, step3Vars>>

\* the worker is past the anchor loop of classify_songs_core (a worker that
\* stopped in step 1 has started no other stage and emitted no signal)
Grouped ==
    \/ pc \in {"output", "save", "check1", "step2", "check2", "step3", "done"}
    \/ pc = "stopped" /\ (Len(stages) > 1 \/ finished # <<>>)

\* the output loop visited every group (it was not left by break)
OutputComplete == Grouped /\ pc \notin {"output", "save"} /\ group_pos > Len(groups)

\* start_processing of the window, a second time on the same input: a new
\* worker, whose calls assign their locals before reading them; the
\* classified sheet of the first execution stays on disk.  prev keeps the
\* groups of the first execution, and its rows when its output loop was not
\* cut short.
StartAgain ==
    /\ pc \in {"stopped", "done"}
    /\ ~rerun
    /\ rerun' = TRUE
    /\ prev' = [grouped |-> Grouped,
                groups |-> IF Grouped THEN groups ELSE <<>>,
                complete |-> OutputComplete,
                ws |-> IF OutputComplete THEN ws ELSE <<>>]
    /\ pc' = "step1"
    /\ is_cancelled' = FALSE
    /\ stages' = <<>>
    /\ finished' = <<>>
    /\ errors' = 0
    /\ polls' = <<>>
    /\ UNCHANGED <<inputVars, step1Vars, sink, probe, step2Vars, step3Vars>>

vars == <<columns, table, key_range, bpm_range, pc, is_cancelled, df, groups,
          used_as_anchor, group_pos, current_group_num, ws, sink, stages,
          finished, errors, rerun, prev, probe, step2Vars, polls, step3Vars>>

Next ==
    \/ Step1Reject
    \/ Step1Load
    \/ GroupAnchor
    \/ OpenWorkbook
    \/ EmitSkip
    \/ EmitCancelled
    \/ EmitGroup
    \/ SaveWorkbook
    \/ Cancel
    \/ CheckCancelled
    \/ CheckContinue
    \/ Step2PitchTempo
    \/ Step3Concat

\* one execution of the pipeline
Spec == Init /\ [][Next]_vars

\* two executions on the same input, one after the other
NextTwice ==
    \/ Next
    \/ StartAgain

SpecTwice == Init /\ [][NextTwice]_vars

\* ------------------------------------------------- steps 2 and 3 on a sheet

\* The largest number of pairs of the classified sheet.
MaxPairs == 2

SHEET_COLUMNS == PLANNER_COLUMNS \cup {"gender"}

SheetRow(ID, name, key, bpm, product) ==
    [ID |-> ID, name |-> name, key |-> key, bpm |-> bpm, product |-> product]

\* the two rows of a pair as pandas reads them: the product name is in the
\* anchor's row, the merged cell below it is empty
PairRowsRead(a, m) ==
    <<SheetRow(Num(a.id), Str(a.name), a.key, a.bpm,
               Str(CombinedName(IntToStr(a.id), IntToStr(m.id)))),
      SheetRow(Num(m.id), Str(m.name), m.key, m.bpm, NaN)>>

Song(id, name, key, bpm) == [id |-> id, name |-> name, key |-> key, bpm |-> bpm]

Song1 == Song(1, <<"a", "a">>, Str(<<"C">>), Num(120))
Song2 == Song(2, <<"b", "b">>, Str(<<"D">>), Num(150))
Song3 == Song(3, <<"c", "c">>, Str(<<"B">>), Num(120))
Song4 == Song(4, <<"d", "d">>, Str(<<"C">>), Num(120))

\* the pairs of a sheet: songs whose keys and tempos are right (the match
\* has two files, two files of one stem, or none), a key that does not
\* resolve on either side, and a tempo that is 0, text or empty on either side
SheetPairs ==
    {PairRowsRead(Song1, Song2),
     PairRowsRead(Song1, Song3),
     PairRowsRead(Song1, Song4),
     PairRowsRead(Song1, [Song2 EXCEPT !.key = Str(<<"H">>)]),
     PairRowsRead([Song1 EXCEPT !.key = Num(14)], Song2),
     PairRowsRead(Song1, [Song2 EXCEPT !.bpm = Num(0)]),
     PairRowsRead([Song1 EXCEPT !.bpm = Num(0)], Song2),
     PairRowsRead(Song1, [Song2 EXCEPT !.bpm = Str(<<"x">>)]),
     PairRowsRead([Song1 EXCEPT !.bpm = Str(<<"x">>)], Song2),
     PairRowsRead([Song1 EXCEPT !.bpm = NaN], Song2)}

RECURSIVE Flatten(_)
Flatten(pairs) ==
    IF pairs = <<>> THEN <<>> ELSE Head(pairs) \o Flatten(Tail(pairs))

Sheet(columns_, pairs) ==
    [readable |-> TRUE, columns |-> columns_, rows |-> Flatten(pairs)]

\* the sheets of at most MaxPairs pairs with every column; a sheet of one pair
\* that lacks one of the columns; a file that cannot be read
Sheets ==
    {Sheet(SHEET_COLUMNS, pairs) :
        pairs \in UNION {[1..n -> SheetPairs] : n \in 0..MaxPairs}}
    \cup {Sheet(SHEET_COLUMNS \ {c}, <<PairRowsRead(Song1, Song2)>>) : c \in PLANNER_COLUMNS}
    \cup {NoSheet}

\* the audio directory in the order of a walk: two files of song 1 (one of
\* them not a wav file), two of song 2, two of one stem of song 3, none of
\* song 4, and a file that is no audio
AudioDir ==
    <<File(<<"1", "-", "f">>, WAV), File(<<"1", "-", "b">>, MP3),
      File(<<"2", "-", "f">>, WAV), File(<<"2", "-", "b">>, WAV),
      File(<<"3">>, WAV), File(<<"3">>, MP3),
      File(<<"2", "-", "f">>, <<".", "t", "x", "t">>)>>

\* the worker has run step 1 and is about to call step2_pitch_tempo on the
\* sheet found at classified_excel_path
InitPlanner ==
    /\ columns = {}
    /\ table = <<>>
    /\ key_range = 2
    /\ bpm_range = 5
    /\ pc = "step2"
    /\ is_cancelled = FALSE
    /\ stages = <<"step1">>
    /\ finished = <<>>
    /\ errors = 0
    /\ NoFrame
    /\ sink = NoSink
    /\ rerun = FALSE
    /\ prev = NoPrev
    /\ probe = NoProbe
    /\ classified \in Sheets
    /\ audio_dir = AudioDir
    /\ output_dir = {}
    /\ start_dir = {}
    /\ NoTasks
    /\ gap_duration = 0
    /\ NoAssembler

NextPlanner ==
    \/ Step2ReadFails
    \/ Step2ReturnEmpty
    \/ Step2Plan
    \/ TaskCancelled
    \/ RunTask
    \/ Step2Return
    \/ Cancel
    \/ CheckCancelled
    \/ CheckContinue
    \/ ConcatReturnEmpty
    \/ ConcatRun

\* steps 2 and 3 of one execution
SpecPlanner == InitPlanner /\ [][NextPlanner]_vars

\* start_processing a second time: step 1 writes the sheet again, and step 2
\* is called on the same sheet and directories; what process_pitch_tempo_core
\* keeps in its locals starts anew, the files of the first execution stay
PlanAgain ==
    /\ pc \in {"stopped", "done"}
    /\ ~rerun
    /\ rerun' = TRUE
    /\ pc' = "step2"
    /\ is_cancelled' = FALSE
    /\ stages' = <<"step1">>
    /\ finished' = <<>>
    /\ errors' = 0
    /\ start_dir' = output_dir
    /\ task_list' = <<>>
    /\ total_tasks' = 0
    /\ task_idx' = 0
    /\ success_count' = 0
    /\ processed_files' = {}
    /\ copied_anchors' = {}
    /\ dsp_calls' = <<>>
    /\ copies' = <<>>
    /\ failed' = {}
    /\ result' = <<>>
    /\ polls' = <<>>
    /\ UNCHANGED <<inputVars, step1Vars, sink, prev, probe, classified, audio_dir,
                   output_dir, step3Vars>>

NextPlannerTwice ==
    \/ NextPlanner
    \/ PlanAgain

\* steps 2 and 3 of two executions on the same sheet and directories
SpecPlannerTwice == InitPlanner /\ [][NextPlannerTwice]_vars

\* ------------------------------------------------ step 3: concat_audio_core

\* the two segment types ("前段副歌" and "后段副歌" in the source)
FRONT == <<"f">>
BACK == <<"b">>

\* product_name.split('-') (line 67)
RECURSIVE SplitDash(_)
SplitDash(s) ==
    IF \A i \in 1..Len(s) : s[i] # "-" THEN <<s>>
    ELSE LET d == CHOOSE i \in 1..Len(s) :
                      s[i] = "-" /\ \A j \in 1..(i - 1) : s[j] # "-"
         IN  <<SubSeq(s, 1, d - 1)>> \o SplitDash(SubSeq(s, d + 1, Len(s)))

\* the number of digits of s from position i on
DigitRun(s, i) == Cardinality({j \in i..Len(s) : \A k \in i..j : IsDigit(s[k])})

\* re.match(r'^(\d+)-(\d+)-', product_name) (line 62): whether it matches,
\* and its two groups
PatternMatch(s) ==
    LET n1 == DigitRun(s, 1)
        d1 == n1 + 1
        n2 == DigitRun(s, d1 + 1)
        d2 == d1 + 1 + n2
    IN  [ok |-> /\ n1 > 0
                /\ d1 <= Len(s) /\ s[d1] = "-"
                /\ n2 > 0
                /\ d2 <= Len(s) /\ s[d2] = "-",
         g1 |-> SubSeq(s, 1, n1),
         g2 |-> SubSeq(s, d1 + 1, d1 + n2)]

\* parse_product_name without the split on '-'
parse_product_name_pattern_only(product_name) ==
    LET match == PatternMatch(product_name)
    IN  IF match.ok THEN <<match.g1, match.g2>> ELSE <<<<>>, <<>>>>

\* parse_product_name (lines 48-71)
parse_product_name(product_name) ==
    LET match == PatternMatch(product_name)
        parts == SplitDash(product_name)
    IN  IF match.ok THEN <<match.g1, match.g2>>
        ELSE IF Len(parts) >= 2 THEN <<parts[1], parts[2]>>
        ELSE <<<<>>, <<>>>>

\* a frame of audio: silence, or sound of a file
SilentFrame == [silence |-> TRUE, folder |-> <<>>, stem |-> <<>>]
FileFrame(path) == [silence |-> FALSE, folder |-> path.folder, stem |-> path.stem]

\* AudioSegment.from_file (lines 120-123): the sound of the file
from_file(path) == <<FileFrame(path)>>

\* create_silence (lines 74-80), a frame for a millisecond
create_silence(duration) ==
    IF duration <= 0 THEN <<>> ELSE [i \in 1..duration |-> SilentFrame]

\* find_audio_file (lines 15-45) in the folder of a product: <<>> for None.
\* The files of the directory are the wav files step 2 wrote; it has no
\* sub-folder named by an id (lines 40-43).
find_audio_file(dir, audio_folder, song_id, segment_type) ==
    LET path == [folder |-> audio_folder,
                 stem |-> song_id \o <<"-">> \o segment_type]
    IN  IF path \in dir THEN <<path>> ELSE <<>>

\* the four segments song by song
AssembleBySong(silence, audio_a_front, audio_b_front, audio_a_back, audio_b_back) ==
    silence \o audio_a_front \o silence \o audio_a_back \o silence \o
    audio_b_front \o silence \o audio_b_back \o silence

\* result (lines 129-135)
Assemble(silence, audio_a_front, audio_b_front, audio_a_back, audio_b_back) ==
    silence \o audio_a_front \o silence \o audio_b_front \o silence \o
    audio_a_back \o silence \o audio_b_back \o silence

\* a pair is assembled from whatever segments are there
SegmentsFoundAny(a_front, b_front, a_back, b_back) == TRUE

\* none of the four tests of lines 110-117 raises
SegmentsFound(a_front, b_front, a_back, b_back) ==
    a_front # <<>> /\ b_front # <<>> /\ a_back # <<>> /\ b_back # <<>>

\* the sound of a file looked up, nothing for a file not found
Sound(found) == IF found = <<>> THEN <<>> ELSE from_file(found[1])

\* concat_audio_pair (lines 83-137): whether it raised, and the audio; load
\* says whether AudioSegment.from_file raises
concat_audio_pair(dir, audio_folder, id_a, id_b, gap, load) ==
    LET audio_a_front_path == find_audio_file(dir, audio_folder, id_a, FRONT)
        audio_b_front_path == find_audio_file(dir, audio_folder, id_b, FRONT)
        audio_a_back_path == find_audio_file(dir, audio_folder, id_a, BACK)
        audio_b_back_path == find_audio_file(dir, audio_folder, id_b, BACK)
    IN  IF ~SegmentsFound(audio_a_front_path, audio_b_front_path,
                          audio_a_back_path, audio_b_back_path) \/ load
        THEN [raised |-> TRUE, audio |-> <<>>]
        ELSE [raised |-> FALSE,
              audio |-> Assemble(create_silence(gap),
                                 Sound(audio_a_front_path), Sound(audio_b_front_path),
                                 Sound(audio_a_back_path), Sound(audio_b_back_path))]

\* product_name of a pair (line 195)
ConcatProductName(sheet, pair_idx) == Strip(PyStr(sheet.rows[2 * pair_idx - 1].product))

\* the tests of lines 196 and 202 let the pair through
PairParses(product_name) ==
    /\ product_name # <<>>
    /\ parse_product_name(product_name)[1] # <<>>
    /\ parse_product_name(product_name)[2] # <<>>

\* audio_folder.exists() (line 216)
FolderExists(dir, audio_folder) == \E path \in dir : path.folder = audio_folder

\* every pair whose try block was entered is counted
CountPairAlways(count, saved) == count + 1

\* success_count += 1 (line 228), reached when export returned
CountPair(count, saved) == IF saved THEN count + 1 ELSE count

\* pd.read_excel raises in concat_audio_core (line 167): step3_concat emits
\* error_occurred and returns False (lines 225-228)
ConcatReadFails ==
    /\ pc = "step3"
    /\ ~classified.readable
    /\ stages' = Append(stages, "step3")
    /\ errors' = errors + 1
    /\ pc' = "stopped"
    /\ UNCHANGED <<inputVars, step1Vars, is_cancelled, finished, sink, rerun, prev,
                   probe, step2Vars, polls, step3Vars>>

\* concat_audio_core returns (0, 0) before its loop (lines 170-184) and
\* step3_concat returns True (line 223)
ConcatEmpty ==
    /\ pc = "step3"
    /\ classified.readable
    /\ NothingToAssemble(classified)
    /\ stages' = Append(stages, "step3")
    /\ concat_result' = <<0, 0>>
    /\ pc' = "cleanup"
    /\ UNCHANGED <<inputVars, step1Vars, is_cancelled, finished, errors, sink, rerun,
                   prev, probe, step2Vars, polls, gap_duration, concat_pair,
                   concat_success, concat_started, concat_failed, exported, cleaned>>

\* the loop over the pairs begins (lines 180-189)
ConcatStart ==
    /\ pc = "step3"
    /\ classified.readable
    /\ ~NothingToAssemble(classified)
    /\ stages' = Append(stages, "step3")
    /\ concat_pair' = 0
    /\ concat_success' = 0
    /\ pc' = "pairs"
    /\ UNCHANGED <<inputVars, step1Vars, is_cancelled, finished, errors, sink, rerun,
                   prev, probe, step2Vars, polls, gap_duration, concat_started,
                   concat_failed, exported, concat_result, cleaned>>

\* num_pairs (line 180)
NumPairs == Len(classified.rows) \div 2

\* a pair without a product name or without two ids: continue (lines 196-204)
PairSkipped ==
    /\ pc = "pairs"
    /\ concat_pair < NumPairs
    /\ ~PairParses(ConcatProductName(classified, concat_pair + 1))
    /\ concat_pair' = concat_pair + 1
    /\ UNCHANGED <<inputVars, step1Vars, workerVars, sink, rerun, prev, probe,
                   step2Vars, polls, gap_duration, concat_success, concat_started,
                   concat_failed, exported, concat_result, cleaned>>

\* the progress callback answers False: concat_audio_core returns (line 209)
\* and step3_concat returns True (line 223), as after a loop that ended
PairCancelled ==
    /\ pc = "pairs"
    /\ concat_pair < NumPairs
    /\ PairParses(ConcatProductName(classified, concat_pair + 1))
    /\ is_cancelled
    /\ polls' = Append(polls, [stage |-> "step3", unit |-> concat_pair + 1,
                                answer |-> FALSE])
    /\ concat_result' = <<concat_success, NumPairs>>
    /\ pc' = "cleanup"
    /\ UNCHANGED <<inputVars, step1Vars, is_cancelled, stages, finished, errors, sink,
                   rerun, prev, probe, step2Vars, gap_duration, concat_pair,
                   concat_success, concat_started, concat_failed, exported, cleaned>>

\* the try block of a pair (lines 211-233): no folder, continue; otherwise
\* the pair is assembled and exported, or something raises and is caught
PairRun ==
    /\ pc = "pairs"
    /\ concat_pair < NumPairs
    /\ PairParses(ConcatProductName(classified, concat_pair + 1))
    /\ ~is_cancelled
    /\ \E fault \in {"none", "load", "export"} :
          LET product_name == ConcatProductName(classified, concat_pair + 1)
              ids == parse_product_name(product_name)
              safe_product_name == sanitize_filename(product_name)
              there == FolderExists(output_dir, safe_product_name)
              r == concat_audio_pair(output_dir, safe_product_name, ids[1], ids[2],
                                     gap_duration, fault = "load")
              raised == there /\ (r.raised \/ fault = "export")
              saved == there /\ ~raised
          IN  /\ exported' = IF saved
                             THEN Append(exported, [pair |-> concat_pair + 1,
                                                    name |-> safe_product_name,
                                                    audio |-> r.audio])
                             ELSE exported
              /\ concat_success' = CountPair(concat_success, saved)
              /\ concat_failed' = IF raised THEN concat_failed \cup {concat_pair + 1}
                                  ELSE concat_failed
              /\ concat_pair' = concat_pair + 1
    /\ polls' = Append(polls, [stage |-> "step3", unit |-> concat_pair + 1,
                                answer |-> TRUE])
    /\ concat_started' = concat_started \cup {concat_pair + 1}
    /\ UNCHANGED <<inputVars, step1Vars, workerVars, sink, rerun, prev, probe,
                   step2Vars, gap_duration, concat_result, cleaned>>

\* the loop is over: concat_audio_core returns (line 235) and step3_concat
\* returns True (line 223)
ConcatReturn ==
    /\ pc = "pairs"
    /\ concat_pair >= NumPairs
    /\ concat_result' = <<concat_success, NumPairs>>
    /\ pc' = "cleanup"
    /\ UNCHANGED <<inputVars, step1Vars, is_cancelled, stages, finished, errors, sink,
                   rerun, prev, probe, step2Vars, polls, gap_duration, concat_pair,
                   concat_success, concat_started, concat_failed, exported, cleaned>>

\* run() after step3_concat returned True: the directory of step 2 is removed
\* (lines 72-78; rmtree may raise, which is caught) and finished_signal(True)
\* is emitted (lines 81-86)
Cleanup ==
    /\ pc = "cleanup"
    /\ cleaned' = TRUE
    /\ \E removed \in BOOLEAN : output_dir' = IF removed THEN {} ELSE output_dir
    /\ finished' = Append(finished, TRUE)
    /\ pc' = "done"
    /\ UNCHANGED <<inputVars, step1Vars, is_cancelled, stages, errors, sink, rerun,
                   prev, probe, classified, audio_dir, task_list, total_tasks,
                   task_idx, success_count, processed_files, copied_anchors,
                   dsp_calls, copies, failed, result, start_dir, polls, gap_duration,
                   concat_pair, concat_success, concat_started, concat_failed,
                   exported, concat_result>>

\* the product cells of an anchor row: names the pattern matches, a name of
\* two tokens, a name of one token, a name whose first id is empty, an empty
\* cell and a blank one
ConcatProducts ==
    {Str(<<"1", "-", "2", "-", "m", "a", "s", "h", "u", "p">>),
     Str(<<"1", "-", "3", "-", "m", "a", "s", "h", "u", "p">>),
     Str(<<"1", "-", "2">>),
     Str(<<"1", "2">>),
     Str(<<"-", "2", "-", "m", "a", "s", "h", "u", "p">>),
     NaN,
     Str(<<" ">>)}

\* the two rows of a pair with a given product cell
ConcatPairRows(product) ==
    <<SheetRow(Num(1), Str(<<"a", "a">>), Str(<<"C">>), Num(120), product),
      SheetRow(Num(2), Str(<<"b", "b">>), Str(<<"D">>), Num(150), NaN)>>

ConcatSheets ==
    {Sheet(SHEET_COLUMNS, pairs) :
        pairs \in UNION {[1..n -> {ConcatPairRows(c) : c \in ConcatProducts}] :
                            n \in 0..MaxPairs}}
    \cup {Sheet(SHEET_COLUMNS \ {c}, <<ConcatPairRows(Str(<<"1", "-", "2">>))>>) :
             c \in ASSEMBLER_COLUMNS}
    \cup {NoSheet}

\* the four segment files of two songs in the folder of a product
Segments(folder, id_a, id_b) ==
    {[folder |-> folder, stem |-> id \o <<"-">> \o seg] :
        id \in {id_a, id_b}, seg \in {FRONT, BACK}}

FullDir ==
    Segments(<<"1", "-", "2", "-", "m", "a", "s", "h", "u", "p">>, <<"1">>, <<"2">>)
    \cup Segments(<<"1", "-", "3", "-", "m", "a", "s", "h", "u", "p">>, <<"1">>, <<"3">>)
    \cup Segments(<<"1", "-", "2">>, <<"1">>, <<"2">>)

\* the directory of step 2: every segment, one segment of the first product
\* missing, the folder of the first product missing, nothing at all
ConformedDirs ==
    {FullDir, {}}
    \cup {FullDir \ {path} :
             path \in Segments(<<"1", "-", "2", "-", "m", "a", "s", "h", "u", "p">>,
                               <<"1">>, <<"2">>)}
    \cup {FullDir \ Segments(<<"1", "-", "2", "-", "m", "a", "s", "h", "u", "p">>,
                             <<"1">>, <<"2">>)}

\* the gaps, in milliseconds: below 0, 0 and above 0
GapDurations == {-1, 0, 2}

\* the worker has run steps 1 and 2 and is about to call step3_concat
InitAssembler ==
    /\ columns = {}
    /\ table = <<>>
    /\ key_range = 2
    /\ bpm_range = 5
    /\ pc = "step3"
    /\ is_cancelled = FALSE
    /\ stages = <<"step1", "step2">>
    /\ finished = <<>>
    /\ errors = 0
    /\ NoFrame
    /\ sink = NoSink
    /\ rerun = FALSE
    /\ prev = NoPrev
    /\ probe = NoProbe
    /\ classified \in ConcatSheets
    /\ audio_dir = <<>>
    /\ output_dir \in ConformedDirs
    /\ start_dir = {}
    /\ NoTasks
    /\ gap_duration \in GapDurations
    /\ NoAssembler

NextAssembler ==
    \/ ConcatReadFails
    \/ ConcatEmpty
    \/ ConcatStart
    \/ PairSkipped
    \/ PairCancelled
    \/ PairRun
    \/ ConcatReturn
    \/ Cleanup
    \/ Cancel

\* step 3 of one execution, on a classified sheet and a directory of step 2
SpecAssembler == InitAssembler /\ [][NextAssembler]_vars

\* ------------------------------------------------- single calls of a function

\* the key cells of a call: every pitch class as a number (also below 0 and
\* above 11), the letter names with sharps and flats, and cells that do not
\* resolve
ProbeKeyCells ==
    {Num(n) : n \in -13..24}
    \cup {Str(KEY_MAPPING[i][1]) : i \in 1..Len(KEY_MAPPING)}
    \cup {Str(Lower(KEY_MAPPING[i][1])) : i \in 1..Len(KEY_MAPPING)}
    \cup {Str(<<"A", "m">>), Str(<<"c", " ", "m", "a", "j">>), Str(<<"-", "0", ".", "5">>),
          Str(<<" ", "G", " ">>), Str(<<"H">>), Str(<<>>), NaN}

\* no pipeline runs
InitIdle ==
    /\ columns = {}
    /\ table = <<>>
    /\ key_range = 0
    /\ bpm_range = 0
    /\ pc = "idle"
    /\ is_cancelled = FALSE
    /\ stages = <<>>
    /\ finished = <<>>
    /\ errors = 0
    /\ NoFrame
    /\ sink = NoSink
    /\ rerun = FALSE
    /\ prev = NoPrev

\* the files of a directory walk: stems that are an id, an id and a
\* separator, an id and more digits, an id and a letter, and stems that hold
\* a name in either case; suffixes in either case, and one that is no audio
ProbeFiles ==
    {File(<<"1", "2">>, WAV),
     File(<<"1", "2", "-", "a">>, MP3),
     File(<<"1", "2", "3", "-", "x">>, WAV),
     File(<<"1", "2", "_", "b">>, <<".", "W", "A", "V">>),
     File(<<"1", "2", " ", "c">>, <<".", "t", "x", "t">>),
     File(<<"a", "b">>, WAV),
     File(<<"x", "A", "B", "y">>, MP3),
     File(<<"7", "a", "b">>, WAV)}

\* the walks of at most MaxFiles different files
Walks(files) ==
    {d \in UNION {[1..n -> files] : n \in 0..MaxFiles} :
        \A i, j \in 1..Len(d) : i # j => d[i] # d[j]}

ProbeIds == {<<"1", "2">>, <<"7">>, <<>>}
ProbeNames == {<<"a", "b">>, <<" ", "A", "B">>, <<>>}

InitFn ==
    /\ InitIdle
    /\ NoPlanner
    /\ gap_duration = 0
    /\ NoAssembler
    /\ \/ \E fn \in {"key_distance", "semitone_shift"}, a, b \in ProbeKeyCells :
             probe = [fn |-> fn, args |-> <<a, b>>, done |-> FALSE, ret |-> <<>>]
       \/ \E d \in Walks(ProbeFiles), id \in ProbeIds, name \in ProbeNames :
             probe = [fn |-> "find_audio_files", args |-> <<d, id, name>>,
                      done |-> FALSE, ret |-> <<>>]

idleVars == <<columns, table, key_range, bpm_range, pc, is_cancelled, df, groups,
              used_as_anchor, group_pos, current_group_num, ws, sink, stages,
              finished, errors, rerun, prev, step2Vars, polls, step3Vars>>

\* key_to_number on the keys of a candidate and of an anchor (line 259), and
\* the circular difference of the two (lines 296-297), taken both ways;
\* ret is <<>> when key_to_number raises
CallKeyDistance ==
    /\ probe.fn = "key_distance" /\ ~probe.done
    /\ LET c == key_to_number(probe.args[1])
           a == key_to_number(probe.args[2])
       IN  probe' = [probe EXCEPT
                        !.done = TRUE,
                        !.ret = IF c.ok /\ a.ok
                                THEN <<c.v, a.v, KeyDiffCircular(c.v, a.v),
                                       KeyDiffCircular(a.v, c.v)>>
                                ELSE <<>>]
    /\ UNCHANGED idleVars

\* calculate_semitone_shift(match_key, anchor_key) on the key strings that
\* process_pitch_tempo_core reads (lines 360, 372, 385)
CallSemitoneShift ==
    /\ probe.fn = "semitone_shift" /\ ~probe.done
    /\ probe' = [probe EXCEPT
                    !.done = TRUE,
                    !.ret = calculate_semitone_shift(Strip(PyStr(probe.args[1])),
                                                     Strip(PyStr(probe.args[2])))]
    /\ UNCHANGED idleVars

\* find_audio_files(audio_dir, match_id, match_name) (lines 382, 401)
CallFindAudioFiles ==
    /\ probe.fn = "find_audio_files" /\ ~probe.done
    /\ probe' = [probe EXCEPT
                    !.done = TRUE,
                    !.ret = find_audio_files(probe.args[1], probe.args[2], probe.args[3])]
    /\ UNCHANGED idleVars

NextFn ==
    \/ CallKeyDistance
    \/ CallSemitoneShift
    \/ CallFindAudioFiles

SpecFn == InitFn /\ [][NextFn]_vars

\* ---------------------------------------------------------------- claims

\* the members of a group as a set, and its matches (all but the anchor)
Members(g) == {g[m] : m \in 1..Len(g)}
MatchesOf(g) == {g[m] : m \in 2..Len(g)}

\* the normalised gender of an input cell: empty when missing, else the text
\* stripped and lower-cased
NormGender(cell) == IF IsNa(cell) THEN <<>> ELSE Lower(Strip(PyStr(cell)))

\* the circular distance of two pitch classes
CircularDistance(p, q) ==
    LET delta == IF p >= q THEN p - q ELSE q - p
    IN  IF delta <= 12 - delta THEN delta ELSE 12 - delta

\* the three conditions of the membership rule on records i and j
Compatible(i, j) ==
    /\ NormGender(table[i].gender) = NormGender(table[j].gender)
    /\ CircularDistance(df[i].key_num, df[j].key_num) <= key_range
    /\ (IF df[i].bpm >= df[j].bpm THEN df[i].bpm - df[j].bpm
        ELSE df[j].bpm - df[i].bpm) <= bpm_range

\* the worker is in classify_songs_core, past the checks of its input
InGrouping == pc = "grouping" \/ Grouped

\* C1: for every anchor i and every record j that was not yet an anchor when
\* i was processed (j > i), j is in the group of i exactly if the normalised
\* genders are equal, the circular key distance is at most keyRange and the
\* tempo difference is at most bpmRange; on the scenario table with
\* keyRange 2 and bpmRange 5 the only group of two or more is [1, 2].
C1_MembershipRule ==
    InGrouping =>
        /\ \A i \in 1..Len(groups) : \A j \in (i + 1)..Len(df) :
              j \in MatchesOf(groups[i]) <=> Compatible(i, j)
        /\ (table = ScenarioTable /\ key_range = 2 /\ bpm_range = 5
                /\ Len(groups) = Len(table))
              => {k \in 1..Len(groups) : Len(groups[k]) >= 2} = {1}
                 /\ groups[1] = <<1, 2>>

\* the scenario table has been grouped
C1_Witness ==
    /\ table = ScenarioTable /\ key_range = 2 /\ bpm_range = 5
    /\ pc = "output"
    /\ groups = << <<1, 2>>, <<2>>, <<3>> >>

\* C2: group k is seeded by record k, the anchors so far are the records
\* 1..k in input order and, once the anchor loop is over, every record has
\* been an anchor once; every match of a group has an index greater than the
\* anchor's (no earlier anchor is matched again).
C2_AnchorsOnceInOrder ==
    InGrouping =>
        /\ \A k \in 1..Len(groups) : groups[k] # <<>> /\ groups[k][1] = k
        /\ used_as_anchor = 1..Len(groups)
        /\ Grouped => Len(groups) = Len(table)
        /\ \A k \in 1..Len(groups) : \A j \in MatchesOf(groups[k]) : j > k

\* record 3 was matched into the groups of records 1 and 2 and then seeded
\* its own group, although records 1 and 2 are compatible with it
C2_Witness ==
    /\ Grouped /\ Len(groups) = 3
    /\ 3 \in MatchesOf(groups[1]) /\ 3 \in MatchesOf(groups[2])
    /\ groups[3] = <<3>>
    /\ Compatible(3, 1) /\ Compatible(3, 2)

\* C3: every member of a group has the normalised gender of its anchor.
C3_GenderPartition ==
    InGrouping =>
        \A k \in 1..Len(groups) : \A j \in Members(groups[k]) :
            NormGender(table[j].gender) = NormGender(table[k].gender)

\* a group whose members spell one gender differently, beside a record of
\* another gender with the same key and tempo that is left out
C3_Witness ==
    /\ Grouped
    /\ \E k \in 1..Len(groups) : \E j \in MatchesOf(groups[k]) :
          /\ table[j].gender # table[k].gender
          /\ \E o \in (k + 1)..Len(table) :
                /\ o \notin Members(groups[k])
                /\ table[o].key = table[k].key /\ table[o].bpm = table[k].bpm

\* C4: the key numbers that key_to_number yields are pitch classes 0..11,
\* and the circular difference of two of them is the same both ways, is 0
\* for equal pitch classes and is never more than 6.
C4_CircularKeyDistance ==
    (probe.fn = "key_distance" /\ probe.done /\ probe.ret # <<>>) =>
        LET p == probe.ret[1]
            q == probe.ret[2]
        IN  /\ p \in 0..11 /\ q \in 0..11
            /\ probe.ret[3] = probe.ret[4]
            /\ probe.ret[3] \in 0..6
            /\ p = q => probe.ret[3] = 0

\* a numeric key below 0 against one above 11: pitch classes 11 and 0, one
\* semitone apart round the circle
C4_Witness ==
    /\ probe.fn = "key_distance" /\ probe.done
    /\ probe.args = <<Num(-13), Num(24)>>
    /\ probe.ret = <<11, 0, 1, 1>>

RECURSIVE FlatPairs(_, _)
FlatPairs(g, k) ==
    IF k = 0 THEN <<>>
    ELSE FlatPairs(g, k - 1)
            \o [m \in 1..(Len(g[k]) - 1) |-> <<g[k][1], g[k][m + 1]>>]

\* an output row carries the key, tempo and gender of a song
RowOfSong(row, song) ==
    /\ row.key = song.key_original
    /\ row.bpm = song.bpm
    /\ row.gender = song.gender

\* the rows are the anchor/match row pairs of the index pairs, in order
RowsFollow(rows, pairs) ==
    /\ Len(rows) = 2 * Len(pairs)
    /\ \A r \in 1..Len(pairs) :
          /\ RowOfSong(rows[2 * r - 1], df[pairs[r][1]])
          /\ RowOfSong(rows[2 * r], df[pairs[r][2]])

\* C6: the matches of every group are in row order, and the rows written
\* so far are the pairs of the groups visited so far, in group order and
\* inside a group in the order of its matches.
C6_MatchOrdering ==
    InGrouping =>
        /\ \A k \in 1..Len(groups) : \A m, n \in 2..Len(groups[k]) :
              m < n => groups[k][m] < groups[k][n]
        /\ Grouped => RowsFollow(ws, FlatPairs(groups, group_pos - 1))

\* three different songs, all compatible: the rows of (1,2), (1,3), (2,3)
C6_Witness ==
    /\ OutputComplete
    /\ groups = << <<1, 2, 3>>, <<2, 3>>, <<3>> >>
    /\ Len(ws) = 6
    /\ \A i, j \in 1..3 : i # j => ~RowOfSong(SinkRow(df[i], NaN), df[j])

RECURSIVE CountMatches(_, _)
CountMatches(g, k) ==
    IF k = 0 THEN 0 ELSE CountMatches(g, k - 1) + (Len(g[k]) - 1)

\* C7: when the output loop was not cut short, the saved sheet holds one
\* anchor row followed by its match row for every (anchor, match) of every
\* group, the product name in the anchor row, and nothing else.
C7_SinkRetainsPairs ==
    (sink.written /\ OutputComplete) =>
        /\ Len(sink.rows) = 2 * CountMatches(groups, Len(groups))
        /\ RowsFollow(sink.rows, FlatPairs(groups, Len(groups)))
        /\ \A r \in 1..Len(sink.rows) :
              (r % 2 = 1) <=> sink.rows[r].product.kind = "str"

\* a saved sheet of three pairs from one group of three, one of two and one
\* with no match
C7_Witness ==
    /\ sink.written /\ OutputComplete
    /\ \E k \in 1..Len(groups) : Len(groups[k]) = 1
    /\ \E k \in 1..Len(groups) : Len(groups[k]) = 3
    /\ Len(sink.rows) = 6

\* C8: the second execution on the same input forms the groups of the
\* first and, when neither output loop was cut short, writes the same rows.
C8_GroupingDeterminism ==
    rerun =>
        /\ (prev.grouped /\ Grouped) => groups = prev.groups
        /\ (prev.complete /\ OutputComplete) =>
              ws = prev.ws /\ sink.rows = prev.ws

\* both executions wrote the pairs of a group with two matches
C8_Witness ==
    /\ rerun /\ prev.complete /\ OutputComplete
    /\ Len(groups) = 3 /\ Len(groups[1]) = 3
    /\ Len(ws) >= 4

\* the sequential name of the k-th pair ("pair_k")
FallbackName(k) == <<"p", "a", "i", "r", "_">> \o IntToStr(k)

\* C9: the product name of every pair written is anchorId-matchId-suffix
\* built from two identities that are not blank, and the sequential name
\* when an identity is blank.
C9_ProductNaming ==
    Grouped =>
        LET pairs == FlatPairs(groups, group_pos - 1)
        IN  \A r \in 1..Len(pairs) :
              LET anchor_id == get_id_value(df[pairs[r][1]])
                  match_id == get_id_value(df[pairs[r][2]])
                  name == ws[2 * r - 1].product.s
              IN  IF anchor_id # <<>> /\ match_id # <<>>
                  THEN name = anchor_id \o <<"-">> \o match_id \o <<"-">> \o PRODUCT_SUFFIX
                  ELSE name = FallbackName(r)

\* C10: when a required column is missing, a key does not resolve or a tempo
\* is not a number, the classifier raises: no group is formed, no row and no
\* sheet is written, the worker stops in step 1 with an error and neither
\* of the later stages is started.
C10_ValidationFatal ==
    ~(HasRequiredColumns(columns) /\ KeysResolve(table) /\ TemposNumeric(table)) =>
        /\ pc \in {"step1", "stopped"}
        /\ pc = "stopped" => errors = 1 /\ stages = <<"step1">>
        /\ groups = <<>> /\ ws = <<>>
        /\ sink = NoSink
        /\ finished = <<>>
        /\ \A i \in 1..Len(stages) : stages[i] = "step1"

\* the worker stopped on a table whose columns and keys are right and one
\* of whose tempos is not a number
C10_Witness ==
    /\ pc = "stopped" /\ errors = 1
    /\ HasRequiredColumns(columns) /\ KeysResolve(table)
    /\ ~TemposNumeric(table)
    /\ Len(table) >= 2

\* ---- C15

\* a file qualifies by identity: an audio file whose stem is the id, or the
\* id followed by '-', '_' or a space
QualifiesById(f, id) ==
    /\ IsAudio(f)
    /\ Len(f.stem) >= Len(id)
    /\ \A i \in 1..Len(id) : f.stem[i] = id[i]
    /\ Len(f.stem) > Len(id) => f.stem[Len(id) + 1] \in {"-", "_", " "}

\* a file qualifies by name: an audio file whose stem holds the name, the
\* case of letters set aside
QualifiesByName(f, name) ==
    /\ IsAudio(f)
    /\ \E i \in 0..(Len(f.stem) - Len(name)) :
          \A j \in 1..Len(name) : LowerChar(f.stem[i + j]) = LowerChar(name[j])

FilesOf(seq) == {seq[i] : i \in 1..Len(seq)}

\* C15: find_audio_files returns exactly the files that qualify by identity
\* when there is one; only when there is none (or the id is blank) it
\* returns exactly the files that qualify by the name (none for a blank
\* name); no file is returned twice and the result ascends by stem.
C15_AssetResolution ==
    (probe.fn = "find_audio_files" /\ probe.done) =>
        LET d == probe.args[1]
            id == Strip(probe.args[2])
            name == Strip(probe.args[3])
            r == probe.ret
            byId == IF id = <<>> THEN {} ELSE {f \in FilesOf(d) : QualifiesById(f, id)}
            byName == IF name = <<>> THEN {} ELSE {f \in FilesOf(d) : QualifiesByName(f, name)}
        IN  /\ FilesOf(r) = IF byId # {} THEN byId ELSE byName
            /\ Len(r) = Cardinality(FilesOf(r))
            /\ \A i, j \in 1..Len(r) : i < j => ~StrLess(r[j].stem, r[i].stem)

\* id 12 in a walk that meets ab, 123-x and 12-a in this order: only 12-a is
\* returned, although the name ab is the stem of a file
C15_Witness ==
    /\ probe.fn = "find_audio_files" /\ probe.done
    /\ probe.args = << <<File(<<"a", "b">>, WAV),
                         File(<<"1", "2", "3", "-", "x">>, WAV),
                         File(<<"1", "2", "-", "a">>, MP3)>>,
                       <<"1", "2">>, <<"a", "b">> >>
    /\ probe.ret = <<File(<<"1", "2", "-", "a">>, MP3)>>

\* ---- C11

\* the stage started and the worker is beyond it
BeyondStep2 == pc \in {"check2", "step3", "done", "stopped"}

\* C11: when the sheet lacks a column the Planner or the Assembler requires,
\* the stage that meets it fails the run: the worker stops with an error,
\* step 3 is not started after a failed step 2, and finished_signal(True) is
\* never emitted.
C11_SchemaHardStop ==
    (classified.readable /\ ~HasPlannerColumns(classified) /\ BeyondStep2) =>
        /\ pc = "stopped" /\ errors >= 1
        /\ \A i \in 1..Len(stages) : stages[i] # "step3"
        /\ \A i \in 1..Len(finished) : finished[i] # TRUE

\* ---- C12

\* the sheet rows of the pair a task was made for
AnchorRow(t) == classified.rows[2 * t.pair - 1]
MatchRow(t) == classified.rows[2 * t.pair]

\* the pitch class a key cell of the sheet parses to
PitchClass(cell) == parse_key_to_semitone(Strip(PyStr(cell)))

\* the Planner made its task list and has not handed over to step 3
InTaskLoop == pc \in {"tasks", "check2"} /\ ~NothingToPlan(classified)

\* the task list is made and the task loop has not begun; no step after
\* this one assigns task_list or total_tasks
Planned == InTaskLoop /\ pc = "tasks" /\ task_idx = 0

\* C12: the shift of every task lies in -6..6 and is congruent modulo 12 to
\* the anchor's pitch class minus the match's; the tempo rate of every task
\* whose tempos are numbers is the anchor's tempo over the match's.
C12_DirectedTransform ==
    Planned =>
        \A k \in 1..Len(task_list) :
            LET t == task_list[k]
                a == AnchorRow(t)
                m == MatchRow(t)
            IN  /\ t.semitone_shift \in -6..6
                /\ (t.semitone_shift - (PitchClass(a.key) - PitchClass(m.key))) % 12 = 0
                /\ (a.bpm.kind = "num" /\ m.bpm.kind = "num") =>
                      /\ ~t.tempo_rate.nan
                      /\ t.tempo_rate.num * m.bpm.n = t.tempo_rate.den * a.bpm.n
                      /\ t.tempo_rate.den # 0

\* match key D onto anchor key C is -2 and anchor 120 over match 150 is 0.8
C12_Witness ==
    /\ Planned
    /\ \E k \in 1..Len(task_list) :
          /\ AnchorRow(task_list[k]).key = Str(<<"C">>)
          /\ MatchRow(task_list[k]).key = Str(<<"D">>)
          /\ task_list[k].semitone_shift = -2
          /\ task_list[k].tempo_rate = [nan |-> FALSE, num |-> 120, den |-> 150]
          /\ 10 * task_list[k].tempo_rate.num = 8 * task_list[k].tempo_rate.den

\* ---- C13

\* a tempo cell that holds a number above 0
PositiveTempo(cell) ==
    \/ cell.kind = "num" /\ cell.n > 0
    \/ cell.kind = "str" /\ ParseFloat(cell.s).ok /\ TruncFloat(ParseFloat(cell.s)) > 0

\* C13: every task comes from a pair whose anchor tempo and match tempo are
\* both numbers above 0, and its tempo rate is a positive, finite number.
C13_TempoGuard ==
    Planned =>
        \A k \in 1..Len(task_list) :
            LET t == task_list[k]
            IN  /\ PositiveTempo(AnchorRow(t).bpm)
                /\ PositiveTempo(MatchRow(t).bpm)
                /\ ~t.tempo_rate.nan
                /\ t.tempo_rate.num > 0 /\ t.tempo_rate.den > 0

\* ---- C14

KeyResolves(cell) == PitchClass(cell) # NoneValue

\* the rows of the pairs from the n-th on whose two keys resolve
RECURSIVE ResolvablePairs(_, _)
ResolvablePairs(rows, n) ==
    IF 2 * n > Len(rows) THEN <<>>
    ELSE (IF KeyResolves(rows[2 * n - 1].key) /\ KeyResolves(rows[2 * n].key)
          THEN <<rows[2 * n - 1], rows[2 * n]>>
          ELSE <<>>)
         \o ResolvablePairs(rows, n + 1)

\* a task without the number of the iteration that made it
TaskFields(t) == [f \in (DOMAIN t) \ {"pair"} |-> t[f]]

\* C14: a pair one of whose keys does not resolve has no task, the planning
\* raises nothing, and the task list is the one of the sheet without the
\* pairs whose keys do not resolve.
C14_UnresolvableKeySkipped ==
    Planned =>
        LET good == ResolvablePairs(classified.rows, 1)
            expected == BuildTaskList(good, Len(good) \div 2, audio_dir)
        IN  /\ errors = 0
            /\ \A k \in 1..Len(task_list) :
                  /\ KeyResolves(AnchorRow(task_list[k]).key)
                  /\ KeyResolves(MatchRow(task_list[k]).key)
            /\ Len(task_list) = Len(expected)
            /\ \A k \in 1..Len(task_list) :
                  TaskFields(task_list[k]) = TaskFields(expected[k])

\* a pair whose match key is H, then a pair whose keys are right: the tasks
\* are those of the second pair
C14_Witness ==
    /\ Planned
    /\ Len(classified.rows) = 4
    /\ classified.rows[2].key = Str(<<"H">>)
    /\ Len(task_list) = 2
    /\ \A k \in 1..2 : task_list[k].pair = 2

\* ---- C16

\* the tasks made for pair p
TasksOfPair(p) == SelectSeq(task_list, LAMBDA t : t.pair = p)

\* pair p passes the key and tempo checks of the Planner
PassesChecks(p) ==
    LET a == classified.rows[2 * p - 1]
        m == classified.rows[2 * p]
    IN  /\ KeyResolves(a.key) /\ KeyResolves(m.key)
        /\ BpmFloat(a.bpm).ok /\ BpmFloat(m.bpm).ok
        /\ TempoDefined(BpmFloat(a.bpm), BpmFloat(m.bpm))

\* the files found for the match song of pair p
MatchAssets(p) ==
    LET m == classified.rows[2 * p]
    IN  find_audio_files(audio_dir, get_id_value2(m.ID), Strip(PyStr(m.name)))

\* C16: a pair that passes the checks has one task for every file of its
\* match song, in the order of the files, all with one shift and one tempo
\* rate; a pair that does not pass, or whose match song has no file, has
\* none; the tasks follow the order of the pairs and the total reported is
\* their number.
C16_TaskEmission ==
    /\ Planned =>
        /\ \A p \in 1..(Len(classified.rows) \div 2) :
              LET ts == TasksOfPair(p)
                  assets == MatchAssets(p)
              IN  /\ Len(ts) = IF PassesChecks(p) THEN Len(assets) ELSE 0
                  /\ \A i \in 1..Len(ts) :
                        /\ ts[i].audio_file = assets[i]
                        /\ ts[i].semitone_shift = ts[1].semitone_shift
                        /\ ts[i].tempo_rate = ts[1].tempo_rate
        /\ \A i, j \in 1..Len(task_list) : i < j => task_list[i].pair <= task_list[j].pair
    /\ InTaskLoop =>
        /\ total_tasks = Len(task_list)
        /\ result # <<>> => result[2] = Len(task_list)

\* a pair whose match song has no file and a pair whose match song has two:
\* two tasks, and 2 is the total returned
C16_Witness ==
    /\ InTaskLoop /\ result # <<>>
    /\ Len(classified.rows) = 4
    /\ PassesChecks(1) /\ MatchAssets(1) = <<>>
    /\ PassesChecks(2) /\ Len(MatchAssets(2)) = 2
    /\ Len(task_list) = 2 /\ result[2] = 2

\* ---- C17

\* the task loop has visited task k
Visited(k) == k \in 1..task_idx /\ k <= Len(task_list)

PathOfCall(d) == OutputPath(d.product_name, d.audio_file.stem)

\* C18: in a second execution no file whose conformed output was in the
\* output directory when the execution began is given to the DSP capability
\* again; the task of such a file is counted, and the directory ends with
\* the files it had and those of the tasks that succeeded.
C18_IdempotentReentry ==
    (rerun /\ InTaskLoop) =>
        /\ \A i \in 1..Len(dsp_calls) : PathOfCall(dsp_calls[i]) \notin start_dir
        /\ \A k \in 1..Len(task_list) :
              (Visited(k) /\ OutputPath(task_list[k].product_name,
                                        task_list[k].audio_file.stem) \in start_dir)
                  => k \notin failed

\* ---- C19

\* the call of the DSP capability made by task k, if any
CallsOf(k) == {i \in 1..Len(dsp_calls) : dsp_calls[i].task = k}

KeyOfTask(k) == FileKey(task_list[k].product_name, task_list[k].audio_file)

\* an earlier task of the same key called the capability and did not fail
DoneBefore(k) ==
    \E j \in 1..(k - 1) :
        KeyOfTask(j) = KeyOfTask(k) /\ CallsOf(j) # {} /\ j \notin failed

\* C19: a key is in processed_files exactly when a task of that key called
\* the capability and its output was written; a visited task of a key
\* already recorded makes no call and is counted; a visited task of a key
\* not recorded (also one whose earlier task failed) is not skipped: it makes
\* a call or it fails; the success count is the number of visited tasks that
\* did not fail.
C19_CompositeKey ==
    InTaskLoop =>
        /\ \A key \in processed_files :
              /\ OutputPath(key[1], key[2]) \in output_dir
              /\ \E k \in 1..Len(task_list) :
                    Visited(k) /\ KeyOfTask(k) = key /\ CallsOf(k) # {} /\ k \notin failed
        /\ \A k \in 1..Len(task_list) :
              Visited(k) =>
                  /\ (k \notin failed /\ CallsOf(k) # {}) => KeyOfTask(k) \in processed_files
                  /\ DoneBefore(k) => (CallsOf(k) = {} /\ k \notin failed)
                  /\ ~DoneBefore(k) => (CallsOf(k) # {} \/ k \in failed)
        /\ success_count = Cardinality({k \in 1..Len(task_list) : Visited(k) /\ k \notin failed})

\* four tasks of one key: the first failed in the capability, the second
\* called it again and was written, the third and the fourth were skipped and
\* counted
C19_Witness ==
    /\ InTaskLoop
    /\ Len(task_list) = 4 /\ task_idx = 4
    /\ \A k \in 1..4 : KeyOfTask(k) = KeyOfTask(1)
    /\ failed = {1}
    /\ Len(dsp_calls) = 2
    /\ dsp_calls[1].task = 1 /\ dsp_calls[2].task = 2
    /\ success_count = 3

\* ---- C20

\* C20: every visited task either failed or was counted, a task that failed
\* does not end the loop (only a cancellation leaves tasks unvisited), and the
\* stage returns its two counts, 0 <= success <= total, with no error
\* emitted by step 2.
C20_FailureIsolation ==
    (classified.readable /\ ~NothingToPlan(classified) /\ pc \in {"tasks", "check2"}) =>
        /\ task_idx <= Len(task_list)
        /\ success_count + Cardinality(failed) = task_idx
        /\ failed \subseteq 1..task_idx
        /\ errors = 0
        /\ pc = "check2" =>
              /\ result = <<success_count, total_tasks>>
              /\ 0 <= result[1] /\ result[1] <= result[2]
              /\ ~is_cancelled => task_idx = Len(task_list)

\* the first of four tasks raised and the three after it were counted
C20_Witness ==
    /\ pc = "check2"
    /\ ~is_cancelled
    /\ failed = {1}
    /\ dsp_calls = <<>> \/ dsp_calls[1].task # 1
    /\ result = <<3, 4>>

\* ---- C21

\* the length of a gap: nothing for a duration of 0 or below
GapLength == IF gap_duration > 0 THEN gap_duration ELSE 0

\* the two ids of the product name of pair k: its first two tokens
IdsOfPair(k) ==
    LET parts == SplitDash(ConcatProductName(classified, k))
    IN  <<parts[1], parts[2]>>

\* frame i of an audio is the sound of that segment of that song
IsSegment(e, i, song_id, segment_type) ==
    e.audio[i] = [silence |-> FALSE, folder |-> e.name,
                  stem |-> song_id \o <<"-">> \o segment_type]

\* C21: every exported audio is gap, A-front, gap, B-front, gap, A-back, gap,
\* B-back, gap, with five gaps of one length, which is 0 for a gap duration
\* of 0 or below.
C21_AssemblyOrder ==
    \A n \in 1..Len(exported) :
        LET e == exported[n]
            g == GapLength
            ids == IdsOfPair(e.pair)
        IN  /\ Len(e.audio) = 5 * g + 4
            /\ IsSegment(e, g + 1, ids[1], FRONT)
            /\ IsSegment(e, 2 * g + 2, ids[2], FRONT)
            /\ IsSegment(e, 3 * g + 3, ids[1], BACK)
            /\ IsSegment(e, 4 * g + 4, ids[2], BACK)
            /\ \A i \in 1..Len(e.audio) :
                  i \notin {g + 1, 2 * g + 2, 3 * g + 3, 4 * g + 4}
                      => e.audio[i].silence

\* a pair exported with a gap of two frames
C21_Witness ==
    /\ gap_duration = 2
    /\ exported # <<>>
    /\ Len(exported[1].audio) = 14
    /\ exported[1].audio[3].stem = <<"1", "-", "f">>
    /\ exported[1].audio[6].stem = <<"2", "-", "f">>

\* ---- C22

\* the loop of concat_audio_core has visited pair k
PairVisited(k) == pc \in {"pairs", "cleanup", "done"} /\ k \in 1..concat_pair

\* one of the four segment files of pair k is not in the folder of its
\* product
SegmentMissing(k) ==
    \E path \in Segments(sanitize_filename(ConcatProductName(classified, k)),
                         IdsOfPair(k)[1], IdsOfPair(k)[2]) :
        path \notin output_dir

ExportsOf(k) == {n \in 1..Len(exported) : exported[n].pair = k}

NoPollRefused == \A i \in 1..Len(polls) : polls[i].answer

\* concat_audio_core is in its loop or has returned from it
InPairLoop == pc \in {"pairs", "cleanup"} /\ ~NothingToAssemble(classified)

\* C22: a pair one of whose segments is missing has no export and is not
\* counted; the total returned counts it; the pairs after it are visited,
\* and those with a product name of two ids are started.
C22_MissingSegment ==
    InPairLoop =>
        /\ \A k \in 1..NumPairs :
              (PairVisited(k) /\ k \in concat_started /\ SegmentMissing(k)) =>
                  /\ ExportsOf(k) = {}
                  /\ concat_success = Len(exported)
                  /\ concat_result # <<>> => concat_result[2] = NumPairs
                  /\ (pc = "cleanup" /\ NoPollRefused) =>
                        \A j \in (k + 1)..NumPairs :
                            /\ PairVisited(j)
                            /\ PairParses(ConcatProductName(classified, j))
                                  => j \in concat_started

\* the first pair lacks a segment and the second one was exported: (1, 2)
C22_Witness ==
    /\ pc = "cleanup"
    /\ NumPairs = 2
    /\ 1 \in concat_started /\ SegmentMissing(1) /\ FolderExists(output_dir,
           sanitize_filename(ConcatProductName(classified, 1)))
    /\ ExportsOf(1) = {} /\ ExportsOf(2) # {}
    /\ concat_result = <<1, 2>>

\* ---- C23

\* the ids the two strategies give for a product name: the groups of the
\* pattern when it matches, else the first two tokens, else nothing
IdsByStrategy(product_name) ==
    LET match == PatternMatch(product_name)
        parts == SplitDash(product_name)
    IN  IF match.ok THEN <<match.g1, match.g2>>
        ELSE IF Len(parts) >= 2 THEN <<parts[1], parts[2]>>
        ELSE <<>>

HasTwoIds(product_name) ==
    /\ IdsByStrategy(product_name) # <<>>
    /\ IdsByStrategy(product_name)[1] # <<>>
    /\ IdsByStrategy(product_name)[2] # <<>>

\* C23: a visited pair is started exactly when its product name yields two
\* non-empty ids (every visited pair, as long as no poll was refused); a
\* pair that is not started has no export, is not counted, and is in the
\* total; the sound of an export is that of the two ids parsed.
C23_ProductNameParsing ==
    InPairLoop =>
        /\ \A k \in 1..NumPairs :
              PairVisited(k) =>
                  /\ k \in concat_started <=> HasTwoIds(ConcatProductName(classified, k))
                  /\ k \notin concat_started => ExportsOf(k) = {}
        /\ concat_success = Len(exported)
        /\ concat_result # <<>> => concat_result[2] = NumPairs
        /\ (pc = "cleanup" /\ NoPollRefused) => concat_pair = NumPairs
        /\ \A n \in 1..Len(exported) :
              LET ids == IdsByStrategy(ConcatProductName(classified, exported[n].pair))
              IN  /\ IsSegment(exported[n], GapLength + 1, ids[1], FRONT)
                  /\ IsSegment(exported[n], 2 * GapLength + 2, ids[2], FRONT)

\* a pair whose name has one token, then a pair whose name has two tokens
\* which the pattern does not match: the second is exported, (1, 2)
C23_Witness ==
    /\ pc = "cleanup"
    /\ NumPairs = 2
    /\ ConcatProductName(classified, 1) = <<"1", "2">>
    /\ ConcatProductName(classified, 2) = <<"1", "-", "2">>
    /\ concat_started = {2}
    /\ ExportsOf(2) # {}
    /\ concat_result = <<1, 2>>

\* ---- C24

StagePolls(stage) == Cardinality({i \in 1..Len(polls) : polls[i].stage = stage})

\* the calls of the progress callback of a stage for a unit
PollsOf(stage, unit) ==
    {i \in 1..Len(polls) : polls[i].stage = stage /\ polls[i].unit = unit}

\* C25: the Grouper has polled once for every candidate anchor it has
\* worked on, the Planner once for every task it has visited, the Assembler
\* once for every pair it has started.
C25_PollPerUnit ==
    /\ pc = "grouping" => StagePolls("step1") = Len(groups)
    /\ pc = "tasks" => \A k \in 1..task_idx : Cardinality(PollsOf("step2", k)) = 1
    /\ pc = "pairs" => \A k \in concat_started : Cardinality(PollsOf("step3", k)) = 1

\* ---- C26

\* C26: a poll that was refused is the last poll of the execution, its stage
\* has started no unit from the one refused on and has returned without an
\* error, and no file written before was removed.
C26_CancellationEffect ==
    \A i \in 1..Len(polls) :
        ~polls[i].answer =>
            /\ i = Len(polls)
            /\ errors = 0
            /\ polls[i].stage = "step1" => pc \notin {"grouping", "output"}
            /\ polls[i].stage = "step2" =>
                  (pc # "tasks" /\ task_idx = polls[i].unit - 1)
            /\ polls[i].stage = "step3" =>
                  /\ pc # "pairs"
                  /\ concat_pair = polls[i].unit - 1
                  /\ \A k \in concat_started : k < polls[i].unit
                  /\ concat_result = <<Len(exported), NumPairs>>
            /\ ~cleaned

\* ---- C27

\* C27: the stages start in the order step 1, step 2, step 3, each once; a
\* stage that raised is the last one started, and after it the worker has
\* stopped without finished_signal(True); step 2 starts only when step 1 has
\* saved its sheet, and finished_signal(True) needs the three stages.
C27_StageOrdering ==
    /\ \E n \in 0..3 : stages = SubSeq(<<"step1", "step2", "step3">>, 1, n)
    /\ errors <= 1
    /\ errors > 0 =>
          /\ pc = "stopped"
          /\ \A i \in 1..Len(finished) : ~finished[i]
    /\ Len(stages) >= 2 => sink.written
    /\ (\E i \in 1..Len(finished) : finished[i]) => (Len(stages) = 3 /\ pc = "done")
    /\ pc \in {"step1", "grouping", "output", "save", "check1"} => Len(stages) <= 1
    /\ pc \in {"step2", "check2"} => Len(stages) <= 2

\* step 2 raised: step 3 was not started and nothing was reported finished
C27_Witness ==
    /\ pc = "stopped"
    /\ errors = 1
    /\ stages = <<"step1", "step2">>
    /\ sink.written
    /\ finished = <<>>

\* ---- C28

SomePollRefused == \E i \in 1..Len(polls) : ~polls[i].answer

\* C28: an execution in which a progress callback answered False emits no
\* finished_signal(True), does not remove the directory of step 2, and ends
\* with finished_signal(False).
C28_CancelledNeverSucceeds ==
    SomePollRefused =>
        /\ \A i \in 1..Len(finished) : ~finished[i]
        /\ ~cleaned
        /\ pc \in {"done", "stopped"} => finished = <<FALSE>>

\* ---- C29

\* the number of an id cell that holds a whole number of 0 or above
IsNaturalId(cell) == cell.kind = "num" /\ cell.n >= 0

\* C29: for every pair of rows the Grouper wrote whose two ids are whole
\* numbers of 0 or above, parse_product_name of the product name gives the
\* two ids as text.
C29_ProductNameRoundTrip ==
    \A p \in 1..(Len(ws) \div 2) :
        LET anchor_row == ws[2 * p - 1]
            match_row == ws[2 * p]
        IN  (IsNaturalId(anchor_row.ID) /\ IsNaturalId(match_row.ID)) =>
                parse_product_name(PyStr(anchor_row.product))
                    = <<IntToStr(anchor_row.ID.n), IntToStr(match_row.ID.n)>>

\* ---- C30

\* C30: the key of every row the Grouper wrote resolves in the Planner, to
\* the pitch class the Grouper compared.
C30_KeyParsingAgrees ==
    \A r \in 1..Len(ws) :
        /\ key_to_number(ws[r].key).ok
        /\ parse_key_to_semitone(Strip(PyStr(ws[r].key))) = key_to_number(ws[r].key).v

====
